---- MODULE Spec2Model ----
(***************************************************************************)
(* Eos attribute calculation core: the affection register                  *)
(* (eos/fit/calculator/register.py), driven either call by call (Spec) or  *)
(* with affectors of one kind (SpecDirect, SpecBroadcast) or through the   *)
(* fit's item lifecycle (SpecFit), the reactive armor hardener             *)
(* simulator on top of it (SpecRah, SpecSim), the memo of attribute values *)
(* (SpecCache), the effect build (SpecBuild) and the stat tracker of the   *)
(* drone bay (SpecStat).                                                   *)
(***************************************************************************)
EXTENDS Integers, Sequences, FiniteSets, TLC

(***************************************************************************)
(* Bounds of the model.                                                    *)
(***************************************************************************)
\* At most this many affectors are known to the register at a time (registered
\* or held in one of its indices) when it is driven call by call.
MaxAffectors == 1

\* The most affectors aimed at single items the register holds at a time
\* when it is driven call by call with those.
MaxDirect == 3

\* The most affectors the register holds at a time when it is driven call
\* by call with those aimed at domains and skill requirements.
MaxBroadcast == 2

(***************************************************************************)
(* Values of the data model.                                               *)
(***************************************************************************)
\* Python's None where an integer id is expected (group id, extra argument).
NoneId == 0

\* Python's None where an item is expected (no current ship / character).
NoItem == "None"

\* EosTypeId.current_self: "use the carrier item's type id".
current_self == -1

\* ModDomain members; "1972" is the value outside the enum the tests use.
ModDomain == {"self", "character", "ship", "other"}

\* ModTgtFilter members.
ModTgtFilter ==
    {"item", "domain", "domain_group", "domain_skillrq", "owner_skillrq"}

\* State, in increasing order.
StateOrder == <<"offline", "online", "active", "overload">>

State == {StateOrder[n] : n \in 1..Len(StateOrder)}

StateRank(s) == CHOOSE n \in 1..Len(StateOrder) : StateOrder[n] = s

(***************************************************************************)
(* The items of the model and what the register reads of them.             *)
(***************************************************************************)
Item ==
    {"ship1", "ship2", "char", "skill", "mod", "charge", "indep", "rah", "plain",
     "rah2", "rah0", "implant", "drone"}

\* The items of the fits that exercise the register.
FitItem == {"ship1", "ship2", "char", "skill", "mod", "charge", "indep"}

\* The items of the fits of test_rah_results.py: a ship, a reactive armor
\* hardener, a module of the same data whose default effect is cleared, and
\* a hardener whose cycle time is 0.
RahItem == {"ship1", "rah", "plain", "rah0"}

\* The items handed to the register when it is driven call by call.
CallItem == {"ship1", "char", "skill", "mod", "charge"}

\* The items handed to the register when it is driven call by call with
\* affectors aimed at single items: two carriers aim at the ship.
DirectItem == {"ship1", "char", "skill", "mod", "charge", "rah"}

\* The items handed to the register as affectees when it is driven call by
\* call with affectors aimed at domains and skill requirements; the
\* character and the implant are carriers only.
BroadcastItem == {"ship1", "skill", "mod", "charge", "drone"}

\* item._type_id
type_id(item) ==
    CASE item = "ship1" -> 10
      [] item = "ship2" -> 11
      [] item = "char" -> 20
      [] item = "skill" -> 30
      [] item = "mod" -> 40
      [] item = "charge" -> 41
      [] item = "indep" -> 1
      [] item = "rah" -> 2
      [] item = "plain" -> 3
      [] item = "rah2" -> 2
      [] item = "rah0" -> 4
      [] item = "implant" -> 50
      [] item = "drone" -> 60

\* item._type.group_id; the charge's type has no group.
group_id(item) ==
    CASE item \in {"ship1", "ship2"} -> 25
      [] item = "char" -> 1
      [] item = "skill" -> 255
      [] item \in {"mod", "rah", "plain", "rah2", "rah0"} -> 50
      [] item = "charge" -> NoneId
      [] item = "indep" -> NoneId
      [] item = "implant" -> 300
      [] item = "drone" -> 100

\* item._type.required_skills: the drone requires the type of the skill and
\* the type of the implant.
required_skills(item) ==
    IF item \in {"mod", "charge"} THEN {30}
    ELSE IF item = "drone" THEN {30, 50} ELSE {}

\* item._modifier_domain, "None" when the item belongs to no domain.
modifier_domain(item) ==
    CASE item \in {"mod", "charge", "rah", "plain", "rah2", "rah0"} -> "ship"
      [] item \in {"skill", "implant"} -> "character"
      [] OTHER -> "None"

\* item._owner_modifiable
owner_modifiable(item) == item \in {"charge", "drone"}

\* item._others: the charge of a module and the module of a charge.
others(item) ==
    CASE item = "mod" -> {"charge"}
      [] item = "charge" -> {"mod"}
      [] OTHER -> {}

\* DogmaModifier(state, tgt_filter, tgt_domain, tgt_attr,
\*               tgt_filter_extra_arg, operator, src_attr)
DogmaModifier(state, tgt_filter, tgt_domain, tgt_attr, extra, operator, src) ==
    [state |-> state, tgt_filter |-> tgt_filter, tgt_domain |-> tgt_domain,
     tgt_attr |-> tgt_attr, tgt_filter_extra_arg |-> extra,
     operator |-> operator, src_attr |-> src]

\* Attribute ids: the four armor resonances, the shift amount, and the
\* cycle time and heat bonus attributes of test_rah_results.py.
armor_em_damage_resonance == 267

armor_explosive_damage_resonance == 268

armor_kinetic_damage_resonance == 269

armor_thermal_damage_resonance == 270

resistance_shift_amount == 1849

cycle_attr == 100001

heat_attr == 100002

\* The resonance attributes in the order em, thermal, kinetic, explosive.
res_attrs ==
    <<armor_em_damage_resonance, armor_thermal_damage_resonance,
      armor_kinetic_damage_resonance, armor_explosive_damage_resonance>>

ResAttr == {res_attrs[n] : n \in 1..Len(res_attrs)}

\* item._type.default_effect: the effect id, "None" when there is none.
default_effect(item) ==
    IF item \in {"rah", "rah2", "rah0"}
    THEN "adaptive_armor_hardener" ELSE "None"

\* The modifiers of the reactive armor hardener type of test_rah_results.py:
\* the heat modifier of its overload effect, and the modifiers of its
\* hardener effect (category active), which multiply the ship's resonances
\* by the module's.
rah_modifiers ==
    <<DogmaModifier("overload", "item", "self", cycle_attr, NoneId,
                    "post_percent", heat_attr)>>
    \o [n \in 1..Len(res_attrs) |->
          DogmaModifier("active", "item", "ship", res_attrs[n], NoneId,
                        "pre_mul", res_attrs[n])]

\* The modifiers the effects of an item's type carry, in the order of the
\* effects.  "indep" is the item of test_dom_unknown.py: a modifier with the
\* unknown domain 1972 and a valid one on the same attribute.  The module
\* carries a heat modifier that needs the overload state, as the one of
\* test_rah_results.py, and modifiers with an unknown domain and an unknown
\* filter.  The implant carries the broadcast modifiers the other items
\* lack: one aimed at the character domain, three whose domain the register
\* cannot resolve, and one aimed at the owner's items that require the
\* implant's own type.
modifiers(item) ==
    CASE item = "indep" ->
           <<DogmaModifier("offline", "item", "1972", 1, NoneId, "post_percent", 2),
             DogmaModifier("offline", "item", "self", 1, NoneId, "post_percent", 2)>>
      [] item = "mod" ->
           <<DogmaModifier("overload", "item", "self", 1, NoneId, "post_percent", 2),
             DogmaModifier("offline", "item", "1972", 3, NoneId, "post_percent", 2),
             DogmaModifier("online", "item", "ship", 3, NoneId, "post_percent", 2),
             DogmaModifier("offline", "item", "other", 3, NoneId, "post_percent", 2),
             DogmaModifier("offline", "domain_group", "ship", 3, NoneId, "post_percent", 2),
             DogmaModifier("active", "1972", "ship", 3, NoneId, "post_percent", 2)>>
      [] item \in {"ship1", "ship2"} ->
           <<DogmaModifier("offline", "domain", "self", 3, NoneId, "post_percent", 4)>>
      [] item = "char" ->
           <<DogmaModifier("offline", "domain_group", "self", 3, 255, "post_percent", 4)>>
      [] item = "skill" ->
           <<DogmaModifier("offline", "domain_skillrq", "ship", 3, current_self, "post_percent", 4),
             DogmaModifier("offline", "owner_skillrq", "1972", 3, 30, "post_percent", 4),
             DogmaModifier("offline", "item", "character", 3, NoneId, "post_percent", 4)>>
      [] item \in {"rah", "plain", "rah2", "rah0"} -> rah_modifiers
      [] item = "implant" ->
           <<DogmaModifier("offline", "domain", "character", 3, NoneId, "post_percent", 4),
             DogmaModifier("offline", "domain", "other", 3, NoneId, "post_percent", 4),
             DogmaModifier("offline", "domain_group", "1972", 3, 50, "post_percent", 4),
             DogmaModifier("offline", "domain_skillrq", "self", 3, current_self, "post_percent", 4),
             DogmaModifier("offline", "owner_skillrq", "character", 3, current_self, "post_percent", 4)>>
      [] OTHER -> <<>>

\* The value 1.0 of a resonance or a multiplier: they are held as whole
\* numbers of ten-thousandths.
UNIT == 10000

\* item._type.attributes: the base values.  Attributes 1 to 4 are those of
\* test_dom_unknown.py (source value 20, base 100).  The resonances are
\* those of test_rah_results.py: the first ship's (0.5, 0.65, 0.75, 0.9),
\* the second ship's 0.675 each, a hardener's 0.85 each with shift amount 6,
\* cycle time 1000 (0 for the hardener of test_unexpected_exception) and
\* heat bonus -15.
attributes(item) ==
    [attr \in 1..4 |-> IF attr = 2 THEN 20 ELSE 100]
    @@
    (CASE item = "ship1" ->
            (armor_em_damage_resonance :> 5000)
            @@ (armor_thermal_damage_resonance :> 6500)
            @@ (armor_kinetic_damage_resonance :> 7500)
            @@ (armor_explosive_damage_resonance :> 9000)
       [] item = "ship2" ->
            [attr \in ResAttr |-> 6750]
       [] item \in {"rah", "plain", "rah2", "rah0"} ->
            [attr \in ResAttr |-> 8500]
            @@ (resistance_shift_amount :> 6)
            @@ (cycle_attr :> IF item = "rah0" THEN 0 ELSE 1000)
            @@ (heat_attr :> -15)
       [] OTHER -> <<>>)

\* attribute.stackable: the resonances are not, so their modifications are
\* stacking penalized.
stackable(attr) == attr \notin ResAttr

\* Affector: the pair (carrier_item, modifier), the modifier named by its
\* place among the carrier's modifiers.
Affector == UNION {{<<i, n>> : n \in 1..Len(modifiers(i))} : i \in Item}

\* affector.carrier_item
carrier_item(affector) == affector[1]

\* affector.modifier
modifier(affector) == modifiers(affector[1])[affector[2]]

\* The affectors of an item, in the order of its modifiers.
affectors_of(item) == [n \in 1..Len(modifiers(item)) |-> <<item, n>>]

\* The affectors handed to the register when it is driven call by call.
CallAffector == {a \in Affector : a[1] \in CallItem}

\* The affectors aimed at single items: at the carrier, the ship, the
\* character or the other item.
DirectAffector ==
    {<<"mod", 1>>, <<"rah", 1>>,    \* aimed at the carrier
     <<"mod", 3>>, <<"rah", 2>>,    \* aimed at the ship
     <<"skill", 3>>,                \* aimed at the character
     <<"mod", 4>>}                  \* aimed at the other item

\* The affectors aimed at domains and skill requirements, and one aimed at
\* the ship itself.
BroadcastAffector ==
    {<<"ship1", 1>>, <<"implant", 1>>, <<"implant", 2>>,       \* domain
     <<"char", 1>>, <<"mod", 5>>, <<"implant", 3>>,            \* domain_group
     <<"skill", 1>>, <<"implant", 4>>,                         \* domain_skillrq
     <<"skill", 2>>, <<"implant", 5>>,                         \* owner_skillrq
     <<"mod", 3>>}                                             \* item

(***************************************************************************)
(* KeyedStorage: a dictionary from keys to non-empty sets, held as the set *)
(* of its (key, member) pairs.                                             *)
(***************************************************************************)
add_data_entry(storage, key, data) == storage \cup {<<key, data>>}

rm_data_entry(storage, key, data) == storage \ {<<key, data>>}

add_data_set(storage, key, data_set) ==
    storage \cup {<<key, d>> : d \in data_set}

storage_get(storage, key) ==
    {p[2] : p \in {q \in storage : q[1] = key}}

storage_contains(storage, key) == \E p \in storage : p[1] = key

storage_del(storage, key) == {p \in storage : p[1] # key}

(***************************************************************************)
(* AffectionRegister.  The register is a record of its twelve fields; the  *)
(* calculation service it reads is a record of _current_ship and           *)
(* _current_char.  A method that can raise returns a record with the       *)
(* exception in "error" and its argument in "arg".                         *)
(***************************************************************************)
EmptyRegister ==
    [affectee |-> {},
     affectee_domain |-> {},
     affectee_domain_group |-> {},
     affectee_domain_skillrq |-> {},
     affectee_owner_skillrq |-> {},
     affector_item_other |-> {},
     affector_item_awaitable |-> {},
     affector_item_active |-> {},
     affector_domain |-> {},
     affector_domain_group |-> {},
     affector_domain_skillrq |-> {},
     affector_owner_skillrq |-> {}]

AffecteeMaps ==
    {"affectee_domain", "affectee_domain_group", "affectee_domain_skillrq",
     "affectee_owner_skillrq"}

AffectorMaps ==
    {"affector_item_other", "affector_item_awaitable", "affector_item_active",
     "affector_domain", "affector_domain_group", "affector_domain_skillrq",
     "affector_owner_skillrq"}

Return(value) == [error |-> "none", arg |-> "", value |-> value]

Raise(error, arg) == [error |-> error, arg |-> arg, value |-> {}]

\* __get_registered_affectees
get_registered_affectees(reg, items) == reg.affectee \cap items

\* A variant of __contextize_tgt_filter_domain that hands back the domain
\* of a carrier that is neither the ship nor the character as it is.
contextize_tgt_filter_domain_passing_self(svc, affector) ==
    LET carrier == carrier_item(affector)
        domain == modifier(affector).tgt_domain
    IN  IF domain = "self"
        THEN IF carrier = svc.current_ship
             THEN Return("ship")
             ELSE IF carrier = svc.current_char
                  THEN Return("character")
                  ELSE Return(domain)
        ELSE IF domain \in {"character", "ship"}
             THEN Return(domain)
             ELSE Raise("UnexpectedDomainError", domain)

\* __contextize_tgt_filter_domain
contextize_tgt_filter_domain(svc, affector) ==
    LET carrier == carrier_item(affector)
        domain == modifier(affector).tgt_domain
    IN  IF domain = "self"
        THEN IF carrier = svc.current_ship
             THEN Return("ship")
             ELSE IF carrier = svc.current_char
                  THEN Return("character")
                  ELSE Raise("UnexpectedDomainError", domain)
        ELSE IF domain \in {"character", "ship"}
             THEN Return(domain)
             ELSE Raise("UnexpectedDomainError", domain)

\* A variant that takes the extra argument for the skill type id, whatever
\* it is.
skill_type_id_of_argument(affector) ==
    modifier(affector).tgt_filter_extra_arg

\* The skill type id a skill requirement filter looks for.
skill_type_id_of(affector) ==
    IF modifier(affector).tgt_filter_extra_arg = current_self
    THEN type_id(carrier_item(affector))
    ELSE modifier(affector).tgt_filter_extra_arg

(***************************************************************************)
(* Helpers of the affectee getter.                                         *)
(***************************************************************************)
get_affectees_item_self(reg, svc, affector) ==
    Return(get_registered_affectees(reg, {carrier_item(affector)}))

get_affectees_item_character(reg, svc, affector) ==
    IF svc.current_char # NoItem
    THEN Return(get_registered_affectees(reg, {svc.current_char}))
    ELSE Return({})

get_affectees_item_ship(reg, svc, affector) ==
    IF svc.current_ship # NoItem
    THEN Return(get_registered_affectees(reg, {svc.current_ship}))
    ELSE Return({})

get_affectees_item_other(reg, svc, affector) ==
    Return(get_registered_affectees(reg, others(carrier_item(affector))))

get_affectees_item(reg, svc, affector) ==
    LET tgt_domain == modifier(affector).tgt_domain
    IN  CASE tgt_domain = "self" -> get_affectees_item_self(reg, svc, affector)
          [] tgt_domain = "character" ->
               get_affectees_item_character(reg, svc, affector)
          [] tgt_domain = "ship" -> get_affectees_item_ship(reg, svc, affector)
          [] tgt_domain = "other" -> get_affectees_item_other(reg, svc, affector)
          [] OTHER -> Raise("UnexpectedDomainError", tgt_domain)

get_affectees_domain(reg, svc, affector) ==
    LET domain == contextize_tgt_filter_domain(svc, affector)
    IN  IF domain.error # "none"
        THEN domain
        ELSE Return(storage_get(reg.affectee_domain, domain.value))

get_affectees_domain_group(reg, svc, affector) ==
    LET domain == contextize_tgt_filter_domain(svc, affector)
        group == modifier(affector).tgt_filter_extra_arg
    IN  IF domain.error # "none"
        THEN domain
        ELSE Return(storage_get(reg.affectee_domain_group,
                                <<domain.value, group>>))

get_affectees_domain_skillrq(reg, svc, affector) ==
    LET domain == contextize_tgt_filter_domain(svc, affector)
    IN  IF domain.error # "none"
        THEN domain
        ELSE Return(storage_get(reg.affectee_domain_skillrq,
                                <<domain.value, skill_type_id_of(affector)>>))

get_affectees_owner_skillrq(reg, svc, affector) ==
    Return(storage_get(reg.affectee_owner_skillrq, skill_type_id_of(affector)))

\* The getter table and the call through it: the body of get_affectees's
\* try block.
affectees_getters(reg, svc, affector) ==
    LET mod_tgt_filter == modifier(affector).tgt_filter
    IN  CASE mod_tgt_filter = "item" -> get_affectees_item(reg, svc, affector)
          [] mod_tgt_filter = "domain" -> get_affectees_domain(reg, svc, affector)
          [] mod_tgt_filter = "domain_group" ->
               get_affectees_domain_group(reg, svc, affector)
          [] mod_tgt_filter = "domain_skillrq" ->
               get_affectees_domain_skillrq(reg, svc, affector)
          [] mod_tgt_filter = "owner_skillrq" ->
               get_affectees_owner_skillrq(reg, svc, affector)
          [] OTHER -> Raise("UnknownTgtFilterError", mod_tgt_filter)

(***************************************************************************)
(* __handle_affector_errors: the log records written and whether the       *)
(* error is raised again.                                                  *)
(***************************************************************************)
\* A variant that lets every error through to the caller.
handle_affector_errors_reraising(error, affector) ==
    [log |-> <<>>, raised |-> TRUE]

handle_affector_errors(error, affector) ==
    IF error.error = "UnexpectedDomainError"
    THEN [log |-> <<[level |-> "WARNING",
                     msg |-> "malformed modifier on item type {}: unsupported target domain {}",
                     type_id |-> type_id(carrier_item(affector)),
                     arg |-> error.arg]>>,
          raised |-> FALSE]
    ELSE IF error.error = "UnknownTgtFilterError"
         THEN [log |-> <<[level |-> "WARNING",
                          msg |-> "malformed modifier on item type {}: invalid target filter {}",
                          type_id |-> type_id(carrier_item(affector)),
                          arg |-> error.arg]>>,
               raised |-> FALSE]
         ELSE [log |-> <<>>, raised |-> TRUE]

\* get_affectees: the items returned, the log records and whether it raised.
get_affectees(reg, svc, affector) ==
    LET got == affectees_getters(reg, svc, affector)
    IN  IF got.error = "none"
        THEN [value |-> got.value, log |-> <<>>, raised |-> FALSE]
        ELSE LET handled == handle_affector_errors(got, affector)
             IN  [value |-> {}, log |-> handled.log, raised |-> handled.raised]

(***************************************************************************)
(* Affectee processing.                                                    *)
(***************************************************************************)
\* __get_affectee_storages: the (map, key) places of an affectee.
get_affectee_storages(affectee_item) ==
    LET domain == modifier_domain(affectee_item)
        group == group_id(affectee_item)
    IN  (IF domain # "None"
         THEN {<<"affectee_domain", domain>>}
              \cup (IF group # NoneId
                    THEN {<<"affectee_domain_group", <<domain, group>>>>}
                    ELSE {})
              \cup {<<"affectee_domain_skillrq", <<domain, s>>>> :
                      s \in required_skills(affectee_item)}
         ELSE {})
        \cup
        (IF owner_modifiable(affectee_item)
         THEN {<<"affectee_owner_skillrq", s>> :
                 s \in required_skills(affectee_item)}
         ELSE {})

\* The keys among `storages` that belong to map `name`.
keys_of(storages, name) == {s[2] : s \in {t \in storages : t[1] = name}}

\* A variant of __activate_direct_affectors that promotes nothing.
activate_direct_affectors_promoting_nothing(reg, svc, affectee_item) == reg

\* A variant of __activate_direct_affectors that leaves the affectors it
\* promotes in the awaitable index.
activate_direct_affectors_copying(reg, svc, affectee_item) ==
    LET affectors_awaitable ==
            {p[2] : p \in
               {q \in reg.affector_item_awaitable :
                  LET domain == modifier(q[2]).tgt_domain
                  IN  \/ domain = "ship" /\ affectee_item = svc.current_ship
                      \/ domain = "character" /\ affectee_item = svc.current_char
                      \/ domain = "self" /\ affectee_item = q[1]}}
        affectors_other ==
            {p[2] : p \in {q \in reg.affector_item_other :
                             affectee_item \in others(q[1])}}
    IN  [reg EXCEPT
           !.affector_item_active =
               add_data_set(add_data_set(@, affectee_item, affectors_awaitable),
                            affectee_item, affectors_other)]

\* A variant of __activate_direct_affectors that promotes only the
\* awaitable affectors aimed at their own carrier.
activate_direct_affectors_own_only(reg, svc, affectee_item) ==
    LET affectors_awaitable ==
            {p[2] : p \in
               {q \in reg.affector_item_awaitable :
                  modifier(q[2]).tgt_domain = "self" /\ affectee_item = q[1]}}
        awaitable ==
            reg.affector_item_awaitable
            \ {<<carrier_item(a), a>> : a \in affectors_awaitable}
        affectors_other ==
            {p[2] : p \in {q \in reg.affector_item_other :
                             affectee_item \in others(q[1])}}
    IN  [reg EXCEPT
           !.affector_item_awaitable = awaitable,
           !.affector_item_active =
               add_data_set(add_data_set(@, affectee_item, affectors_awaitable),
                            affectee_item, affectors_other)]

\* A variant of __activate_direct_affectors that moves the affectors aimed
\* at the other item out of their own map as it activates them.
activate_direct_affectors_moving_other(reg, svc, affectee_item) ==
    LET affectors_awaitable ==
            {p[2] : p \in
               {q \in reg.affector_item_awaitable :
                  LET domain == modifier(q[2]).tgt_domain
                  IN  \/ domain = "ship" /\ affectee_item = svc.current_ship
                      \/ domain = "character" /\ affectee_item = svc.current_char
                      \/ domain = "self" /\ affectee_item = q[1]}}
        awaitable ==
            reg.affector_item_awaitable
            \ {<<carrier_item(a), a>> : a \in affectors_awaitable}
        affectors_other ==
            {p[2] : p \in {q \in reg.affector_item_other :
                             affectee_item \in others(q[1])}}
    IN  [reg EXCEPT
           !.affector_item_awaitable = awaitable,
           !.affector_item_other =
               @ \ {<<carrier_item(a), a>> : a \in affectors_other},
           !.affector_item_active =
               add_data_set(add_data_set(@, affectee_item, affectors_awaitable),
                            affectee_item, affectors_other)]

\* __activate_direct_affectors
activate_direct_affectors(reg, svc, affectee_item) ==
    LET affectors_awaitable ==
            {p[2] : p \in
               {q \in reg.affector_item_awaitable :
                  LET domain == modifier(q[2]).tgt_domain
                  IN  \/ domain = "ship" /\ affectee_item = svc.current_ship
                      \/ domain = "character" /\ affectee_item = svc.current_char
                      \/ domain = "self" /\ affectee_item = q[1]}}
        awaitable ==
            reg.affector_item_awaitable
            \ {<<carrier_item(a), a>> : a \in affectors_awaitable}
        affectors_other ==
            {p[2] : p \in {q \in reg.affector_item_other :
                             affectee_item \in others(q[1])}}
    IN  [reg EXCEPT
           !.affector_item_awaitable = awaitable,
           !.affector_item_active =
               add_data_set(add_data_set(@, affectee_item, affectors_awaitable),
                            affectee_item, affectors_other)]

\* A variant of __deactivate_direct_affectors that demotes nothing.
deactivate_direct_affectors_demoting_nothing(reg, affectee_item) ==
    [reg EXCEPT !.affector_item_active = storage_del(@, affectee_item)]

\* A variant of __deactivate_direct_affectors that demotes every affector
\* it removes, those aimed at the other item included.
deactivate_direct_affectors_demoting_all(reg, affectee_item) ==
    IF ~storage_contains(reg.affector_item_active, affectee_item)
    THEN reg
    ELSE LET affectors_awaitable ==
                 storage_get(reg.affector_item_active, affectee_item)
         IN  [reg EXCEPT
                !.affector_item_active = storage_del(@, affectee_item),
                !.affector_item_awaitable =
                    @ \cup {<<carrier_item(a), a>> : a \in affectors_awaitable}]

\* A variant of __deactivate_direct_affectors that demotes the affectors
\* and leaves the entry of the item in the active index.
deactivate_direct_affectors_keeping_active(reg, affectee_item) ==
    IF ~storage_contains(reg.affector_item_active, affectee_item)
    THEN reg
    ELSE LET affectors_awaitable ==
                 {a \in storage_get(reg.affector_item_active, affectee_item) :
                    modifier(a).tgt_domain \in {"ship", "character", "self"}}
         IN  [reg EXCEPT
                !.affector_item_awaitable =
                    @ \cup {<<carrier_item(a), a>> : a \in affectors_awaitable}]

\* A variant of __deactivate_direct_affectors that demotes the affectors
\* aimed at the ship and the character and forgets those aimed at their
\* own carrier.
deactivate_direct_affectors_forgetting_self(reg, affectee_item) ==
    IF ~storage_contains(reg.affector_item_active, affectee_item)
    THEN reg
    ELSE LET affectors_awaitable ==
                 {a \in storage_get(reg.affector_item_active, affectee_item) :
                    modifier(a).tgt_domain \in {"ship", "character"}}
         IN  [reg EXCEPT
                !.affector_item_active = storage_del(@, affectee_item),
                !.affector_item_awaitable =
                    @ \cup {<<carrier_item(a), a>> : a \in affectors_awaitable}]

\* A variant of __deactivate_direct_affectors that demotes the affectors
\* under the item they were active under instead of their carriers.
deactivate_direct_affectors_under_affectee(reg, affectee_item) ==
    IF ~storage_contains(reg.affector_item_active, affectee_item)
    THEN reg
    ELSE LET affectors_awaitable ==
                 {a \in storage_get(reg.affector_item_active, affectee_item) :
                    modifier(a).tgt_domain \in {"ship", "character", "self"}}
         IN  [reg EXCEPT
                !.affector_item_active = storage_del(@, affectee_item),
                !.affector_item_awaitable =
                    @ \cup {<<affectee_item, a>> : a \in affectors_awaitable}]

\* __deactivate_direct_affectors
deactivate_direct_affectors(reg, affectee_item) ==
    IF ~storage_contains(reg.affector_item_active, affectee_item)
    THEN reg
    ELSE LET affectors_awaitable ==
                 {a \in storage_get(reg.affector_item_active, affectee_item) :
                    modifier(a).tgt_domain \in {"ship", "character", "self"}}
         IN  [reg EXCEPT
                !.affector_item_active = storage_del(@, affectee_item),
                !.affector_item_awaitable =
                    @ \cup {<<carrier_item(a), a>> : a \in affectors_awaitable}]

\* A variant of register_affectee that indexes the item and activates
\* nothing.
register_affectee_indexing_only(reg, svc, affectee_item) ==
    LET storages == get_affectee_storages(affectee_item)
    IN  [name \in DOMAIN reg |->
           IF name = "affectee"
           THEN reg.affectee \cup {affectee_item}
           ELSE IF name \in AffecteeMaps
                THEN reg[name] \cup
                     {<<key, affectee_item>> : key \in keys_of(storages, name)}
                ELSE reg[name]]

\* register_affectee
register_affectee(reg, svc, affectee_item) ==
    LET storages == get_affectee_storages(affectee_item)
        added ==
            [name \in DOMAIN reg |->
               IF name = "affectee"
               THEN reg.affectee \cup {affectee_item}
               ELSE IF name \in AffecteeMaps
                    THEN reg[name] \cup
                         {<<key, affectee_item>> : key \in keys_of(storages, name)}
                    ELSE reg[name]]
    IN  activate_direct_affectors(added, svc, affectee_item)

\* A variant of unregister_affectee that leaves the item in the affectee
\* indices.
unregister_affectee_keeping_indices(reg, svc, affectee_item) ==
    deactivate_direct_affectors(
        [reg EXCEPT !.affectee = @ \ {affectee_item}], affectee_item)

\* A variant of unregister_affectee that leaves the item in the two maps
\* keyed by a required skill.
unregister_affectee_keeping_skillrq(reg, svc, affectee_item) ==
    LET storages == get_affectee_storages(affectee_item)
        removed ==
            [name \in DOMAIN reg |->
               IF name = "affectee"
               THEN reg.affectee \ {affectee_item}
               ELSE IF name \in {"affectee_domain", "affectee_domain_group"}
                    THEN reg[name] \
                         {<<key, affectee_item>> : key \in keys_of(storages, name)}
                    ELSE reg[name]]
    IN  deactivate_direct_affectors(removed, affectee_item)

\* unregister_affectee
unregister_affectee(reg, svc, affectee_item) ==
    LET storages == get_affectee_storages(affectee_item)
        removed ==
            [name \in DOMAIN reg |->
               IF name = "affectee"
               THEN reg.affectee \ {affectee_item}
               ELSE IF name \in AffecteeMaps
                    THEN reg[name] \
                         {<<key, affectee_item>> : key \in keys_of(storages, name)}
                    ELSE reg[name]]
    IN  deactivate_direct_affectors(removed, affectee_item)

(***************************************************************************)
(* Affector processing.                                                    *)
(***************************************************************************)
\* A variant of get_affectors that leaves out the affectors aimed at the
\* item directly.
get_affectors_without_direct(reg, affectee_item) ==
    IF affectee_item \notin reg.affectee
    THEN {}
    ELSE LET domain == modifier_domain(affectee_item)
         IN  (IF domain # "None"
              THEN storage_get(reg.affector_domain, domain)
                   \cup storage_get(reg.affector_domain_group,
                                    <<domain, group_id(affectee_item)>>)
                   \cup UNION {storage_get(reg.affector_domain_skillrq,
                                           <<domain, s>>) :
                                 s \in required_skills(affectee_item)}
              ELSE {})
             \cup
             (IF owner_modifiable(affectee_item)
              THEN UNION {storage_get(reg.affector_owner_skillrq, s) :
                            s \in required_skills(affectee_item)}
              ELSE {})

\* A variant of get_affectors that takes every item for owner-modifiable.
get_affectors_for_any_owner(reg, affectee_item) ==
    IF affectee_item \notin reg.affectee
    THEN {}
    ELSE LET domain == modifier_domain(affectee_item)
         IN  storage_get(reg.affector_item_active, affectee_item)
             \cup
             (IF domain # "None"
              THEN storage_get(reg.affector_domain, domain)
                   \cup storage_get(reg.affector_domain_group,
                                    <<domain, group_id(affectee_item)>>)
                   \cup UNION {storage_get(reg.affector_domain_skillrq,
                                           <<domain, s>>) :
                                 s \in required_skills(affectee_item)}
              ELSE {})
             \cup
             UNION {storage_get(reg.affector_owner_skillrq, s) :
                      s \in required_skills(affectee_item)}

\* A variant of get_affectors that does not look whether the item is a
\* registered affectee.
get_affectors_of_any_item(reg, affectee_item) ==
    LET domain == modifier_domain(affectee_item)
    IN  storage_get(reg.affector_item_active, affectee_item)
        \cup
        (IF domain # "None"
         THEN storage_get(reg.affector_domain, domain)
              \cup storage_get(reg.affector_domain_group,
                               <<domain, group_id(affectee_item)>>)
              \cup UNION {storage_get(reg.affector_domain_skillrq,
                                      <<domain, s>>) :
                            s \in required_skills(affectee_item)}
         ELSE {})
        \cup
        (IF owner_modifiable(affectee_item)
         THEN UNION {storage_get(reg.affector_owner_skillrq, s) :
                       s \in required_skills(affectee_item)}
         ELSE {})

\* get_affectors
get_affectors(reg, affectee_item) ==
    IF affectee_item \notin reg.affectee
    THEN {}
    ELSE LET domain == modifier_domain(affectee_item)
         IN  storage_get(reg.affector_item_active, affectee_item)
             \cup
             (IF domain # "None"
              THEN storage_get(reg.affector_domain, domain)
                   \cup storage_get(reg.affector_domain_group,
                                    <<domain, group_id(affectee_item)>>)
                   \cup UNION {storage_get(reg.affector_domain_skillrq,
                                           <<domain, s>>) :
                                 s \in required_skills(affectee_item)}
              ELSE {})
             \cup
             (IF owner_modifiable(affectee_item)
              THEN UNION {storage_get(reg.affector_owner_skillrq, s) :
                            s \in required_skills(affectee_item)}
              ELSE {})

\* Helpers of affector registering and unregistering: the (map, key) places
\* of an affector.
\* A variant that never takes the carrier for registered.
get_affector_storages_item_self_awaiting(reg, svc, affector) ==
    Return({<<"affector_item_awaitable", carrier_item(affector)>>})

\* A variant that takes every carrier for registered.
get_affector_storages_item_self_active(reg, svc, affector) ==
    Return({<<"affector_item_active", carrier_item(affector)>>})

get_affector_storages_item_self(reg, svc, affector) ==
    IF carrier_item(affector) \in reg.affectee
    THEN Return({<<"affector_item_active", carrier_item(affector)>>})
    ELSE Return({<<"affector_item_awaitable", carrier_item(affector)>>})

\* A variant that keys the active entry on the carrier instead of the
\* character.
get_affector_storages_item_character_by_carrier(reg, svc, affector) ==
    LET character == svc.current_char
    IN  IF character # NoItem /\ character \in reg.affectee
        THEN Return({<<"affector_item_active", carrier_item(affector)>>})
        ELSE Return({<<"affector_item_awaitable", carrier_item(affector)>>})

get_affector_storages_item_character(reg, svc, affector) ==
    LET character == svc.current_char
    IN  IF character # NoItem /\ character \in reg.affectee
        THEN Return({<<"affector_item_active", character>>})
        ELSE Return({<<"affector_item_awaitable", carrier_item(affector)>>})

\* A variant that never takes the ship for registered.
get_affector_storages_item_ship_awaiting(reg, svc, affector) ==
    Return({<<"affector_item_awaitable", carrier_item(affector)>>})

get_affector_storages_item_ship(reg, svc, affector) ==
    LET ship == svc.current_ship
    IN  IF ship # NoItem /\ ship \in reg.affectee
        THEN Return({<<"affector_item_active", ship>>})
        ELSE Return({<<"affector_item_awaitable", carrier_item(affector)>>})

\* A variant that stores the affector in its special place only.
get_affector_storages_item_other_only(reg, svc, affector) ==
    Return({<<"affector_item_other", carrier_item(affector)>>})

get_affector_storages_item_other(reg, svc, affector) ==
    Return({<<"affector_item_other", carrier_item(affector)>>}
           \cup {<<"affector_item_active", other_item>> :
                   other_item \in get_registered_affectees(
                                      reg, others(carrier_item(affector)))})

get_affector_storages_item(reg, svc, affector) ==
    LET tgt_domain == modifier(affector).tgt_domain
    IN  CASE tgt_domain = "self" ->
               get_affector_storages_item_self(reg, svc, affector)
          [] tgt_domain = "character" ->
               get_affector_storages_item_character(reg, svc, affector)
          [] tgt_domain = "ship" ->
               get_affector_storages_item_ship(reg, svc, affector)
          [] tgt_domain = "other" ->
               get_affector_storages_item_other(reg, svc, affector)
          [] OTHER -> Raise("UnexpectedDomainError", tgt_domain)

get_affector_storages_domain(reg, svc, affector) ==
    LET domain == contextize_tgt_filter_domain(svc, affector)
    IN  IF domain.error # "none"
        THEN domain
        ELSE Return({<<"affector_domain", domain.value>>})

get_affector_storages_domain_group(reg, svc, affector) ==
    LET domain == contextize_tgt_filter_domain(svc, affector)
        group == modifier(affector).tgt_filter_extra_arg
    IN  IF domain.error # "none"
        THEN domain
        ELSE Return({<<"affector_domain_group", <<domain.value, group>>>>})

get_affector_storages_domain_skillrq(reg, svc, affector) ==
    LET domain == contextize_tgt_filter_domain(svc, affector)
    IN  IF domain.error # "none"
        THEN domain
        ELSE Return({<<"affector_domain_skillrq",
                       <<domain.value, skill_type_id_of(affector)>>>>})

get_affector_storages_owner_skillrq(reg, svc, affector) ==
    Return({<<"affector_owner_skillrq", skill_type_id_of(affector)>>})

\* __get_affector_storages
get_affector_storages(reg, svc, affector) ==
    LET tgt_filter == modifier(affector).tgt_filter
    IN  CASE tgt_filter = "item" ->
               get_affector_storages_item(reg, svc, affector)
          [] tgt_filter = "domain" ->
               get_affector_storages_domain(reg, svc, affector)
          [] tgt_filter = "domain_group" ->
               get_affector_storages_domain_group(reg, svc, affector)
          [] tgt_filter = "domain_skillrq" ->
               get_affector_storages_domain_skillrq(reg, svc, affector)
          [] tgt_filter = "owner_skillrq" ->
               get_affector_storages_owner_skillrq(reg, svc, affector)
          [] OTHER -> Raise("UnknownTgtFilterError", tgt_filter)

\* A variant of the loop of register_affector that stops short of the
\* active index.
add_affector_entries_but_active(reg, affector_storages, affector) ==
    [name \in DOMAIN reg |->
       IF name \in AffectorMaps \ {"affector_item_active"}
       THEN reg[name] \cup
            {<<key, affector>> : key \in keys_of(affector_storages, name)}
       ELSE reg[name]]

\* A variant of the loop of register_affector that also makes the carrier
\* of the affector an affectee.
add_affector_entries_registering_carrier(reg, affector_storages, affector) ==
    [name \in DOMAIN reg |->
       IF name \in AffectorMaps
       THEN reg[name] \cup
            {<<key, affector>> : key \in keys_of(affector_storages, name)}
       ELSE IF name = "affectee"
            THEN reg.affectee \cup {carrier_item(affector)}
            ELSE reg[name]]

\* The loop of register_affector: add_data_entry at every place.
add_affector_entries(reg, affector_storages, affector) ==
    [name \in DOMAIN reg |->
       IF name \in AffectorMaps
       THEN reg[name] \cup
            {<<key, affector>> : key \in keys_of(affector_storages, name)}
       ELSE reg[name]]

\* A variant of the loop of unregister_affector that stops short of the
\* active index.
rm_affector_entries_but_active(reg, affector_storages, affector) ==
    [name \in DOMAIN reg |->
       IF name \in AffectorMaps \ {"affector_item_active"}
       THEN reg[name] \
            {<<key, affector>> : key \in keys_of(affector_storages, name)}
       ELSE reg[name]]

\* A variant of the loop of unregister_affector that removes nothing.
rm_affector_entries_removing_nothing(reg, affector_storages, affector) == reg

\* The loop of unregister_affector: rm_data_entry at every place.
rm_affector_entries(reg, affector_storages, affector) ==
    [name \in DOMAIN reg |->
       IF name \in AffectorMaps
       THEN reg[name] \
            {<<key, affector>> : key \in keys_of(affector_storages, name)}
       ELSE reg[name]]

\* register_affector: the register afterwards, the log records and whether
\* it raised.
register_affector(reg, svc, affector) ==
    LET affector_storages == get_affector_storages(reg, svc, affector)
    IN  IF affector_storages.error # "none"
        THEN LET handled == handle_affector_errors(affector_storages, affector)
             IN  [reg |-> reg, log |-> handled.log, raised |-> handled.raised]
        ELSE [reg |-> add_affector_entries(reg, affector_storages.value, affector),
              log |-> <<>>, raised |-> FALSE]

\* A variant of unregister_affector that leaves the affector where it is.
unregister_affector_keeping(reg, svc, affector) ==
    [reg |-> reg, log |-> <<>>, raised |-> FALSE]

\* unregister_affector
unregister_affector(reg, svc, affector) ==
    LET affector_storages == get_affector_storages(reg, svc, affector)
    IN  IF affector_storages.error # "none"
        THEN LET handled == handle_affector_errors(affector_storages, affector)
             IN  [reg |-> reg, log |-> handled.log, raised |-> handled.raised]
        ELSE [reg |-> rm_affector_entries(reg, affector_storages.value, affector),
              log |-> <<>>, raised |-> FALSE]

\* The affectors held in some index of the register.
held_affectors(reg) ==
    UNION {{p[2] : p \in reg[name]} : name \in AffectorMaps}

(***************************************************************************)
(* The fit and its calculation service, which hands the fit's items and    *)
(* their affectors to the register: an item's modifier is an affector      *)
(* while the item is on the fit in a state that is at least the modifier's *)
(* state.                                                                  *)
(***************************************************************************)
\* The ship and character classes of items.
IsShip(item) == item \in {"ship1", "ship2"}

IsCharacter(item) == item = "char"

\* The states an item of the fit can be put in: modules have all four.
states_of(item) ==
    IF item \in {"mod", "rah", "plain", "rah2", "rah0"}
    THEN State ELSE {"offline"}

\* The modules that share the first low slot of the fit; "rah2" takes the
\* second.
IsModuleLow(item) == item \in {"rah", "plain", "rah0"}

\* The affectors of an item whose modifier state is above `lower` (or any,
\* when lower is "none") and at most `upper`, in the order of the modifiers.
affectors_between(item, lower, upper) ==
    LET met(affector) ==
            /\ upper # "none"
            /\ StateRank(modifier(affector).state) <= StateRank(upper)
            /\ lower # "none" =>
                 StateRank(modifier(affector).state) > StateRank(lower)
    IN  SelectSeq(affectors_of(item), met)

\* The calls register_affector (when `adding`) or unregister_affector on
\* each of `affectors` in turn; a call that raises ends the sequence.  (The
\* result of each call is bound once, as a member of a singleton set.)
RECURSIVE process_affectors(_, _, _, _)
process_affectors(reg, svc, affectors, adding) ==
    IF affectors = <<>>
    THEN [reg |-> reg, log |-> <<>>, raised |-> FALSE]
    ELSE CHOOSE result \in
           UNION {IF done.raised
                  THEN {done}
                  ELSE {[reg |-> rest.reg, log |-> done.log \o rest.log,
                         raised |-> rest.raised] :
                          rest \in {process_affectors(done.reg, svc,
                                                      Tail(affectors), adding)}} :
                    done \in {IF adding
                              THEN register_affector(reg, svc, Head(affectors))
                              ELSE unregister_affector(reg, svc, Head(affectors))}} :
             TRUE

\* The service's current ship and character once `item` has joined the fit.
bind_item(svc, item) ==
    [current_ship |-> IF IsShip(item) THEN item ELSE svc.current_ship,
     current_char |-> IF IsCharacter(item) THEN item ELSE svc.current_char]

\* The service's current ship and character once `item` has left the fit.
unbind_item(svc, item) ==
    [current_ship |-> IF svc.current_ship = item THEN NoItem
                      ELSE svc.current_ship,
     current_char |-> IF svc.current_char = item THEN NoItem
                      ELSE svc.current_char]

\* An item joins the fit in `state`: it becomes an affectee, then its
\* effects start.
add_item(reg, svc, item, state) ==
    CHOOSE result \in
      {[reg |-> started.reg, svc |-> bind_item(svc, item), log |-> started.log,
        raised |-> started.raised] :
         started \in
           UNION {{process_affectors(added, bind_item(svc, item), affectors, TRUE) :
                     added \in {register_affectee(reg, bind_item(svc, item), item)}} :
                    affectors \in {affectors_between(item, "none", state)}}} :
      TRUE

\* An item in `state` leaves the fit: its effects stop, then it ceases to
\* be an affectee.
remove_item(reg, svc, item, state) ==
    CHOOSE result \in
      {[reg |-> IF stopped.raised THEN stopped.reg
                ELSE unregister_affectee(stopped.reg, svc, item),
        svc |-> IF stopped.raised THEN svc ELSE unbind_item(svc, item),
        log |-> stopped.log, raised |-> stopped.raised] :
         stopped \in
           {process_affectors(reg, svc, affectors, FALSE) :
              affectors \in {affectors_between(item, "none", state)}}} :
      TRUE

\* An item of the fit changes its state: the effects between the two states
\* start or stop.
set_state(reg, svc, item, old, new) ==
    CHOOSE result \in
      {[reg |-> changed.reg, svc |-> svc, log |-> changed.log,
        raised |-> changed.raised] :
         changed \in
           {process_affectors(reg, svc, affectors,
                              StateRank(new) > StateRank(old)) :
              affectors \in {IF StateRank(new) > StateRank(old)
                             THEN affectors_between(item, old, new)
                             ELSE affectors_between(item, new, old)}}} :
      TRUE

(***************************************************************************)
(* The calculator: the value of an attribute of an item, its base value    *)
(* changed by the affectors the register reports for the item.  An         *)
(* override, a triple (item, attribute, value), replaces the value.  A     *)
(* product of a value and a multiplier is cut to a whole number.           *)
(***************************************************************************)
NoOverrides == {}

has_override(overrides, item, attr) ==
    \E o \in overrides : o[1] = item /\ o[2] = attr

override_value(overrides, item, attr) ==
    (CHOOSE o \in overrides : o[1] = item /\ o[2] = attr)[3]

\* The stacking penalty of the n-th strongest modification of a chain:
\* 1 / e ^ (((n - 1) / 2.67) ^ 2), in ten-thousandths.
penalties == <<10000, 8691, 5706, 2830>>

\* A multiplier with its distance from 1.0 reduced by the n-th penalty.
penalize(operand, n) ==
    IF operand <= UNIT
    THEN UNIT - ((UNIT - operand) * penalties[n]) \div UNIT
    ELSE UNIT + ((operand - UNIT) * penalties[n]) \div UNIT

\* The value after one modification with `operand`.
apply_operator(value, operator, operand) ==
    CASE operator = "pre_mul" -> (value * operand) \div UNIT
      [] operator = "post_percent" -> (value * (100 + operand)) \div 100

RECURSIVE apply_penalized(_, _, _, _)
\* The value after the multiplications by `operands`, a set of pairs
\* (affector, multiplier), the strongest first and each penalized by its
\* place.
apply_penalized(value, operator, operands, n) ==
    IF operands = {}
    THEN value
    ELSE CHOOSE result \in
           {apply_penalized(
                apply_operator(value, operator, penalize(strongest[2], n)),
                operator, operands \ {strongest}, n + 1) :
              strongest \in
                {CHOOSE o \in operands :
                   \A other \in operands :
                     \/ o[2] = other[2]
                     \/ (IF o[2] <= UNIT THEN UNIT - o[2] ELSE o[2] - UNIT)
                        > (IF other[2] <= UNIT THEN UNIT - other[2]
                           ELSE other[2] - UNIT)
                     \* equal distances on the two sides of 1.0
                     \/ /\ (IF o[2] <= UNIT THEN UNIT - o[2] ELSE o[2] - UNIT)
                           = (IF other[2] <= UNIT THEN UNIT - other[2]
                              ELSE other[2] - UNIT)
                        /\ o[2] < other[2]}} :
             TRUE

RECURSIVE calculate(_, _, _, _)
RECURSIVE apply_affectors(_, _, _, _)

\* The value after the modifications of `affectors`, whose operands are the
\* source attributes of their carriers.
apply_affectors(reg, overrides, value, affectors) ==
    IF affectors = {}
    THEN value
    ELSE CHOOSE result \in
           {apply_affectors(
                reg, overrides,
                apply_operator(value, modifier(affector).operator,
                               calculate(reg, overrides, carrier_item(affector),
                                         modifier(affector).src_attr)),
                affectors \ {affector}) :
              affector \in {CHOOSE a \in affectors : TRUE}} :
             TRUE

\* item.attributes[attr]: pre-multiplications first, stacking penalized
\* unless the attribute is stackable, then post-percent.
calculate(reg, overrides, item, attr) ==
    IF has_override(overrides, item, attr)
    THEN override_value(overrides, item, attr)
    ELSE CHOOSE result \in
           {apply_affectors(
                reg, overrides,
                IF stackable(attr)
                THEN apply_affectors(reg, overrides, attributes(item)[attr],
                                     {a \in affectors :
                                        modifier(a).operator = "pre_mul"})
                ELSE apply_penalized(
                         attributes(item)[attr], "pre_mul",
                         {<<a, calculate(reg, overrides, carrier_item(a),
                                         modifier(a).src_attr)>> :
                            a \in {a \in affectors :
                                     modifier(a).operator = "pre_mul"}},
                         1),
                {a \in affectors : modifier(a).operator = "post_percent"}) :
              affectors \in {{a \in get_affectors(reg, item) :
                                modifier(a).tgt_attr = attr}}} :
             TRUE

(***************************************************************************)
(* The reactive armor hardener simulator.  A simulation carries, for every *)
(* running hardener, the time it has been cycling, its resonances and the  *)
(* damage the ship received during its cycle; a tick state, the part the   *)
(* history records, is the cycling times and the resonances.  Times are in *)
(* milliseconds.                                                           *)
(***************************************************************************)
MAX_SIMULATION_TICKS == 500

\* The fit's incoming damage profile, uniform by default.
incoming_damage == [attr \in ResAttr |-> 1]

\* The hardeners the simulator runs for: the modules of the fit whose
\* default effect is the hardener effect and whose state is active or more.
running_rahs(fit) ==
    {item \in Item :
       /\ fit[item] \notin {"none", "offline", "online"}
       /\ default_effect(item) = "adaptive_armor_hardener"}

\* The overrides that put a hardener's resonances to `resonances`.
rah_overrides(rah, resonances) ==
    {<<rah, attr, resonances[attr]>> : attr \in ResAttr}

\* The overrides that put every hardener's resonances to its own of
\* `resonances`.
sim_overrides(resonances) ==
    UNION {rah_overrides(rah, resonances[rah]) : rah \in DOMAIN resonances}

\* The place of a resonance attribute in res_attrs.
res_index(attr) == CHOOSE n \in 1..Len(res_attrs) : res_attrs[n] = attr

RECURSIVE sum_over(_, _)
\* The sum of the values of a function over a set of its arguments.
sum_over(f, args) ==
    IF args = {}
    THEN 0
    ELSE LET arg == CHOOSE a \in args : TRUE
         IN  f[arg] + sum_over(f, args \ {arg})

\* The damage types whose resistance a hardener gives up after a cycle in
\* which the ship received `damage`: those that took the least damage, two
\* of them or as many as took no damage at all.  Of types that took the same
\* damage, the one of the smaller attribute id comes first.
rah_donors(damage) ==
    LET before(a) ==
            {b \in ResAttr :
               \/ damage[b] < damage[a]
               \/ damage[b] = damage[a] /\ b < a}
        undamaged == Cardinality({a \in ResAttr : damage[a] = 0})
    IN  {a \in ResAttr :
           Cardinality(before(a)) < (IF undamaged > 2 THEN undamaged ELSE 2)}

\* What a donor gives: the shift amount, and no more than what brings its
\* resonance to 1.0.
rah_donations(resonances, shift) ==
    [attr \in ResAttr |->
       IF UNIT - resonances[attr] < shift
       THEN UNIT - resonances[attr] ELSE shift]

\* A variant of next_resonances in which the other types take the full
\* shift amount for every donor, whatever the donors could give.
next_resonances_taking_full_shift(resonances, damage, shift) ==
    CHOOSE result \in
      {[attr \in ResAttr |->
          IF attr \in donors
          THEN resonances[attr] + rah_donations(resonances, shift)[attr]
          ELSE resonances[attr]
               - (shift * Cardinality(donors))
                 \div Cardinality(ResAttr \ donors)] :
         donors \in {rah_donors(damage)}} :
      TRUE

\* The resonances of a hardener after a cycle: the donors give, the other
\* types share what was given.
next_resonances(resonances, damage, shift) ==
    CHOOSE result \in
      {[attr \in ResAttr |->
          IF attr \in donors
          THEN resonances[attr] + rah_donations(resonances, shift)[attr]
          ELSE resonances[attr]
               - sum_over(rah_donations(resonances, shift), donors)
                 \div Cardinality(ResAttr \ donors)] :
         donors \in {rah_donors(damage)}} :
      TRUE

\* The least member of a non-empty set of numbers.
least(numbers) == CHOOSE n \in numbers : \A m \in numbers : n <= m

\* The cycle time of every hardener of `rahs`, as the calculator gives it.
rah_durations(reg, rahs) ==
    [rah \in rahs |-> calculate(reg, NoOverrides, rah, cycle_attr)]

\* The shift amount of every hardener of `rahs`, percent made
\* ten-thousandths.
rah_shifts(reg, rahs) ==
    [rah \in rahs |->
       (UNIT \div 100) * calculate(reg, NoOverrides, rah, resistance_shift_amount)]

\* A simulation at its start: no hardener has cycled, and the resonances
\* are the unsimulated ones.
sim_start(reg, rahs) ==
    [cycling |-> [rah \in rahs |-> 0],
     resonances |-> [rah \in rahs |->
                       [attr \in ResAttr |->
                          calculate(reg, NoOverrides, rah, attr)]],
     damage |-> [rah \in rahs |-> [attr \in ResAttr |-> 0]]]

\* What the history records of a simulation.
tick_state(sim) == [cycling |-> sim.cycling, resonances |-> sim.resonances]

\* A simulation cannot go on when a hardener's cycle takes no time.
sim_raises(durations) == \E rah \in DOMAIN durations : durations[rah] <= 0

\* The damage the ship has received during every hardener's cycle once
\* `time_passed` more has passed with the ship's resonances as they are.
damage_after(sim, profile, ship_resonances, time_passed) ==
    [rah \in DOMAIN sim.cycling |->
       [attr \in ResAttr |->
          sim.damage[rah][attr]
          + profile[attr] * ship_resonances[attr] * time_passed]]

\* The simulation once `time_passed` has passed: every hardener that has
\* finished its cycle takes its next resonances and starts a new cycle.
sim_after(durations, shifts, sim, damage, time_passed) ==
    [cycling |->
       [rah \in DOMAIN durations |->
          IF sim.cycling[rah] + time_passed >= durations[rah]
          THEN 0 ELSE sim.cycling[rah] + time_passed],
     resonances |->
       [rah \in DOMAIN durations |->
          IF sim.cycling[rah] + time_passed >= durations[rah]
          THEN next_resonances(sim.resonances[rah], damage[rah], shifts[rah])
          ELSE sim.resonances[rah]],
     damage |->
       [rah \in DOMAIN durations |->
          IF sim.cycling[rah] + time_passed >= durations[rah]
          THEN [attr \in ResAttr |-> 0] ELSE damage[rah]]]

\* A tick: time passes until the first hardener finishes its cycle; during
\* it the ship receives the profile's damage through its resonances as
\* simulated so far.
sim_tick(reg, svc, profile, durations, shifts, sim) ==
    CHOOSE result \in
      UNION {UNION {{sim_after(durations, shifts, sim, damage, time_passed) :
                       damage \in {damage_after(sim, profile, ship_resonances,
                                                time_passed)}} :
                      ship_resonances \in
                        {[attr \in ResAttr |->
                            calculate(reg, sim_overrides(sim.resonances),
                                      svc.current_ship, attr)]}} :
               time_passed \in
                 {least({durations[rah] - sim.cycling[rah] :
                           rah \in DOMAIN durations})}} :
        TRUE

\* The places of `history` that hold `state`.
places_of(history, state) == {n \in 1..Len(history) : history[n] = state}

RECURSIVE sum_resonances(_, _, _)
\* The sum of the resonance `attr` of hardener `rah` over tick states.
sum_resonances(states, rah, attr) ==
    IF states = <<>>
    THEN 0
    ELSE Head(states).resonances[rah][attr]
         + sum_resonances(Tail(states), rah, attr)

\* The resonances a simulation results in, from the tick states it keeps:
\* for every hardener the mean of the resonances it started its cycles
\* with.
average_resonances(states) ==
    [rah \in DOMAIN states[1].cycling |->
       CHOOSE result \in
         {[attr \in ResAttr |->
             sum_resonances(used, rah, attr) \div Len(used)] :
            used \in {LET starts(state) == state.cycling[rah] = 0
                      IN  SelectSeq(states, starts)}} :
         TRUE]

\* A variant of ignored_ticks that ignores two ticks whatever the history.
ignored_ticks_always_two(history, slowest, shift_amount) == 2

\* The ticks ignored when no loop was found, those of the initial
\* adaptation: the ticks before the slowest hardener, of cycle time
\* `duration` and shift amount `shift_amount` percent, has finished
\* ceil(ceil(15 / shift_amount) * 1.5) cycles; two when the history is too
\* short for that.
ignored_ticks(history, slowest, shift_amount) ==
    LET cycles == (((15 + shift_amount - 1) \div shift_amount) * 3 + 1) \div 2
        starts == {n \in 1..Len(history) : history[n].cycling[slowest] = 0}
        later == {n \in starts :
                    Cardinality({m \in starts : m < n}) >= cycles}
    IN  IF later # {} THEN least(later) - 1 ELSE 2

\* The hardener of the longest cycle.
slowest_rah(durations) ==
    CHOOSE rah \in DOMAIN durations :
      \A other \in DOMAIN durations : durations[rah] >= durations[other]

\* The result when the ticks ran out with no loop found.
result_without_loop(reg, durations, history) ==
    average_resonances(
        SubSeq(history,
               1 + ignored_ticks(
                       history, slowest_rah(durations),
                       calculate(reg, NoOverrides, slowest_rah(durations),
                                 resistance_shift_amount)),
               Len(history)))

\* A variant of result_of_loop that takes the whole history for the loop.
result_of_loop_from_start(history, state) ==
    average_resonances(history)

\* The result when `state` closes a loop: the states of the loop are those
\* from its first place in the history on.
result_of_loop(history, state) ==
    average_resonances(
        SubSeq(history, least(places_of(history, state)), Len(history)))

RECURSIVE run_ticks(_, _, _, _, _, _, _, _)
\* The ticks of a simulation from `sim`, whose tick state is the last of
\* `history`: the tick state after a tick either closes a loop, and the
\* simulation ends, or it is recorded and the simulation goes on, until
\* `max_ticks` tick states have been recorded.
run_ticks(reg, svc, profile, max_ticks, durations, shifts, sim, history) ==
    IF Len(history) >= max_ticks
    THEN result_without_loop(reg, durations, history)
    ELSE CHOOSE result \in
           {IF places_of(history, tick_state(next)) # {}
            THEN result_of_loop(history, tick_state(next))
            ELSE run_ticks(reg, svc, profile, max_ticks, durations, shifts,
                           next, Append(history, tick_state(next))) :
              next \in {sim_tick(reg, svc, profile, durations, shifts, sim)}} :
             TRUE

\* The results of a simulation run: whether it raised, and the overrides of
\* the resonances of the running hardeners; there are none when the fit has
\* no ship or the run raised.
run_simulation(reg, svc, fit, profile, max_ticks) ==
    IF svc.current_ship = NoItem \/ running_rahs(fit) = {}
    THEN [raised |-> FALSE, resonances |-> NoOverrides]
    ELSE IF sim_raises(rah_durations(reg, running_rahs(fit)))
    THEN [raised |-> TRUE, resonances |-> NoOverrides]
    ELSE [raised |-> FALSE,
          resonances |->
            sim_overrides(
                run_ticks(reg, svc, profile, max_ticks,
                          rah_durations(reg, running_rahs(fit)),
                          rah_shifts(reg, running_rahs(fit)),
                          sim_start(reg, running_rahs(fit)),
                          <<tick_state(sim_start(reg, running_rahs(fit)))>>))]

\* The simulator's results before a run and after a change of the fit.
NoResults == [computed |-> FALSE, resonances |-> NoOverrides]

\* The record the simulator logs when a run raised.
sim_warning ==
    [name |-> "eos.fit.sim.reactive_armor_hardener", level |-> "WARNING",
     msg |-> "unexpected exception, setting unsimulated resonances"]

\* Whether the value of an attribute comes from the resonances of a running
\* hardener: it is one, or an affector takes its operand from one.
reads_resonance(reg, fit, item, attr) ==
    \/ item \in running_rahs(fit) /\ attr \in ResAttr
    \/ \E a \in get_affectors(reg, item) :
         /\ modifier(a).tgt_attr = attr
         /\ carrier_item(a) \in running_rahs(fit)
         /\ modifier(a).src_attr \in ResAttr

\* The simulator's results when an attribute is read, and the records it
\* logs: the simulation runs if the value needs its results and they are
\* not there; a run that raises is caught, logged, and leaves the
\* unsimulated resonances as the results.
get_results(reg, svc, fit, results, item, attr) ==
    IF reads_resonance(reg, fit, item, attr) /\ ~results.computed
    THEN CHOOSE result \in
           {[results |-> [computed |-> TRUE, resonances |-> run.resonances],
             log |-> IF run.raised THEN <<sim_warning>> ELSE <<>>] :
              run \in {run_simulation(reg, svc, fit, incoming_damage,
                                      MAX_SIMULATION_TICKS)}} :
             TRUE
    ELSE [results |-> results, log |-> <<>>]

(***************************************************************************)
(* The memo of attribute values: item.attrs keeps every value it has       *)
(* computed, the values of the source attributes included, until the value *)
(* is deleted.  The memo of the fit is a function from pairs (item,        *)
(* attribute) to values.                                                   *)
(***************************************************************************)
\* The attributes the value of an attribute is computed from: the source
\* attributes of its affectors, none when the value is overridden.
sources_of(reg, overrides, item, attr) ==
    IF has_override(overrides, item, attr)
    THEN {}
    ELSE {<<carrier_item(a), modifier(a).src_attr>> :
            a \in {a \in get_affectors(reg, item) : modifier(a).tgt_attr = attr}}

RECURSIVE computed_with(_, _, _, _)
\* The attributes whose values are computed to compute one.
computed_with(reg, overrides, item, attr) ==
    {<<item, attr>>}
    \cup UNION {computed_with(reg, overrides, source[1], source[2]) :
                  source \in sources_of(reg, overrides, item, attr)}

\* The memo after item.attrs[attr] is read: a value that is kept is
\* returned as it is; otherwise the value is computed, and it is kept with
\* the values computed on the way.
attrs_get(reg, overrides, cache, item, attr) ==
    IF <<item, attr>> \in DOMAIN cache
    THEN cache
    ELSE [pair \in DOMAIN cache \cup computed_with(reg, overrides, item, attr) |->
            IF pair \in DOMAIN cache
            THEN cache[pair]
            ELSE calculate(reg, overrides, pair[1], pair[2])]

\* del item.attrs[attr] for each of `pairs`: a value that is kept is
\* dropped.  (No attribute of the items of this model is both the source of
\* a modifier and the target of another, so that no value that is kept is
\* computed from one that is dropped.)
attrs_del(cache, pairs) ==
    [pair \in DOMAIN cache \ pairs |-> cache[pair]]

\* A variant of clear_affectors_dependents that deletes nothing.
clear_no_dependents(reg, svc, cache, affectors) == cache

\* The memo after the effects of `affectors` started or stopped: the target
\* attribute of each is deleted on the affectees the register reports.
clear_affectors_dependents(reg, svc, cache, affectors) ==
    attrs_del(cache,
              UNION {{<<affectee, modifier(affectors[n]).tgt_attr>> :
                        affectee \in get_affectees(reg, svc, affectors[n]).value} :
                       n \in 1..Len(affectors)})

\* The memo after an item left the fit: its own values are dropped with it.
drop_item(cache, item) ==
    [pair \in {p \in DOMAIN cache : p[1] # item} |-> cache[pair]]

(***************************************************************************)
(* The effect build: InfoBuilder().build(effect, logger) turns the          *)
(* expression trees of an effect into modifiers (infos) and a build         *)
(* status.                                                                  *)
(***************************************************************************)
\* EffectCategory
EffectCategory ==
    [passive |-> 0, active |-> 1, target |-> 2, area |-> 3, online |-> 4,
     overload |-> 5, dungeon |-> 6, system |-> 7]

\* The category ids an effect can carry.
CategoryId == 0..7

\* No expression: the absent argument of an expression.
NoExpression == [operandId |-> 0]

\* Expression(id, operandId, arg1, arg2, value, expressionAttributeId)
Expression(operandId, arg1, arg2, expressionValue, expressionAttributeId) ==
    [operandId |-> operandId, arg1 |-> arg1, arg2 |-> arg2,
     expressionValue |-> expressionValue,
     expressionAttributeId |-> expressionAttributeId]

\* The operands of the expressions of a modification filtered by location:
\* add and remove the modification, join the operator and the target, join
\* the location and the attribute of the target, and define an operator,
\* an attribute and a location.
Operand ==
    [add_loc_mod |-> 8, rm_loc_mod |-> 60, join_optr_tgt |-> 31,
     join_tgt_attr |-> 12, def_optr |-> 21, def_attr |-> 22, def_loc |-> 24]

\* The tree of TestModLoc.setUp, for any top operand, location name and
\* operator name: <top>((<operator>, (<location>, attribute 1211)),
\* attribute 1503).
loc_mod_tree(top, location, operator) ==
    Expression(top,
        Expression(Operand.join_optr_tgt,
            Expression(Operand.def_optr, NoExpression, NoExpression,
                       operator, 0),
            Expression(Operand.join_tgt_attr,
                Expression(Operand.def_loc, NoExpression, NoExpression,
                           location, 0),
                Expression(Operand.def_attr, NoExpression, NoExpression,
                           "", 1211),
                "", 0),
            "", 0),
        Expression(Operand.def_attr, NoExpression, NoExpression, "", 1503),
        "", 0)

\* The locations and the operators the expressions name.
location_names ==
    [Self |-> "self_", Char |-> "character", Ship |-> "ship",
     Target |-> "target", Other |-> "other", Area |-> "area"]

operator_names ==
    [PreAssignment |-> "preAssignment", PreMul |-> "preMul",
     PreDiv |-> "preDiv", ModAdd |-> "modAdd", ModSub |-> "modSub",
     PostMul |-> "postMul", PostDiv |-> "postDiv",
     PostPercent |-> "postPercent", PostAssignment |-> "postAssignment"]

\* Whether an expression of operand `operandId` is there.
is_expression(expression, operandId) ==
    /\ "operandId" \in DOMAIN expression
    /\ expression.operandId = operandId
    /\ "arg1" \in DOMAIN expression

\* Whether the tree below `expression` is the tree of a modification
\* filtered by location, of top operand `top`, naming a known location and
\* a known operator.
is_loc_mod(expression, top) ==
    /\ is_expression(expression, top)
    /\ is_expression(expression.arg1, Operand.join_optr_tgt)
    /\ is_expression(expression.arg1.arg1, Operand.def_optr)
    /\ expression.arg1.arg1.expressionValue \in DOMAIN operator_names
    /\ is_expression(expression.arg1.arg2, Operand.join_tgt_attr)
    /\ is_expression(expression.arg1.arg2.arg1, Operand.def_loc)
    /\ expression.arg1.arg2.arg1.expressionValue \in DOMAIN location_names
    /\ is_expression(expression.arg1.arg2.arg2, Operand.def_attr)
    /\ is_expression(expression.arg2, Operand.def_attr)

\* The modification a tree describes: what it changes, how, and from what.
loc_mod(expression) ==
    [location |-> location_names[expression.arg1.arg2.arg1.expressionValue],
     filterType |-> "all_",
     filterValue |-> NoneId,
     operator |-> operator_names[expression.arg1.arg1.expressionValue],
     targetAttributeId |-> expression.arg1.arg2.arg2.expressionAttributeId,
     sourceType |-> "attribute",
     sourceValue |-> expression.arg2.expressionAttributeId]

\* The modifications the tree of an effect's pre-expression adds (`top` is
\* the operand that adds) or the tree of its post-expression removes: one
\* for a tree of a modification, none for any other tree, which is an
\* error of the build.
parse_tree(expression, top) ==
    IF is_loc_mod(expression, top)
    THEN [failed |-> FALSE, modifiers |-> {loc_mod(expression)}]
    ELSE [failed |-> TRUE, modifiers |-> {}]

\* A variant of state_context that takes every effect for a local one
\* applied from the offline state on.
state_context_of_passive(categoryId) ==
    [known |-> TRUE, state |-> "offline", context |-> "local"]

\* The state from which an effect of a category applies, and its context;
\* effects of the categories area and dungeon are not supported.
state_context(categoryId) ==
    CASE categoryId = EffectCategory.passive ->
           [known |-> TRUE, state |-> "offline", context |-> "local"]
      [] categoryId = EffectCategory.active ->
           [known |-> TRUE, state |-> "active", context |-> "local"]
      [] categoryId = EffectCategory.target ->
           [known |-> TRUE, state |-> "active", context |-> "projected"]
      [] categoryId = EffectCategory.online ->
           [known |-> TRUE, state |-> "online", context |-> "local"]
      [] categoryId = EffectCategory.overload ->
           [known |-> TRUE, state |-> "overload", context |-> "local"]
      [] categoryId = EffectCategory.system ->
           [known |-> TRUE, state |-> "offline", context |-> "local"]
      [] OTHER ->
           [known |-> FALSE, state |-> "", context |-> ""]

\* The info of a modification that lasts while the effect runs.
duration_info(mod, state, context) ==
    [runTime |-> "duration", state |-> state, context |-> context,
     location |-> mod.location, filterType |-> mod.filterType,
     filterValue |-> mod.filterValue, operator |-> mod.operator,
     targetAttributeId |-> mod.targetAttributeId,
     sourceType |-> mod.sourceType, sourceValue |-> mod.sourceValue]

\* A variant of build that hands an error of the build on to its caller.
build_raising(effect) ==
    [infos |-> <<>>, status |-> "error",
     raised |-> ~state_context(effect.categoryId).known]

\* InfoBuilder().build(effect, logger): the infos and the status of the
\* build.  A modification lasts while the effect runs when the
\* pre-expression adds it and the post-expression removes it; one that is
\* only added or only removed is left out and the status is okPartial.  A
\* tree that is no modification, and a category that is not supported, end
\* the build with status error and no info; the build never raises.
build(effect) ==
    CHOOSE result \in
      {IF pre.failed \/ post.failed \/ ~where.known
       THEN [infos |-> <<>>, status |-> "error", raised |-> FALSE]
       ELSE [infos |->
               IF pre.modifiers = post.modifiers
               THEN <<duration_info(CHOOSE mod \in pre.modifiers : TRUE,
                                    where.state, where.context)>>
               ELSE <<>>,
             status |-> IF pre.modifiers = post.modifiers
                        THEN "okFull" ELSE "okPartial",
             raised |-> FALSE] :
         pre \in {parse_tree(effect.preExpression, Operand.add_loc_mod)},
         post \in {parse_tree(effect.postExpression, Operand.rm_loc_mod)},
         where \in {state_context(effect.categoryId)}} :
      TRUE

\* Effect(id, categoryId, preExpressionCallData, postExpressionCallData)
Effect(categoryId, preExpression, postExpression) ==
    [categoryId |-> categoryId, preExpression |-> preExpression,
     postExpression |-> postExpression]

\* An effect that has not been built.
unbuilt(effect) ==
    [effect |-> effect, done |-> FALSE, infos |-> <<>>, status |-> "",
     raised |-> FALSE]

\* The build before any effect is made.
NoBuild == unbuilt(Effect(0, NoExpression, NoExpression))

(***************************************************************************)
(* The stat tracker: the drone bay statistics of a fit, memoized until the *)
(* volatile attributes are cleared.  Volumes are held as whole numbers of  *)
(* tenths, so that 55.5 is a value.                                        *)
(***************************************************************************)
\* Attribute.volume, Attribute.drone_capacity
Attribute == [volume |-> 161, drone_capacity |-> 283]

\* No ship is set on the fit.
NoShip == [present |-> FALSE, attributes |-> <<>>]

\* A ship holder with the attributes `attrs_of_ship`.
ShipHolder(attrs_of_ship) == [present |-> TRUE, attributes |-> attrs_of_ship]

\* fit.drones: the holders of the drone container.
fit_drones(holders) ==
    {holder \in DOMAIN holders : holders[holder].container = "drones"}

\* A variant of dronebay_used that counts the holders of every container.
dronebay_used_of_all_holders(holders) ==
    sum_over([holder \in DOMAIN holders |->
                holders[holder].attributes[Attribute.volume]],
             {holder \in DOMAIN holders : holders[holder].container # "none"})

\* st.dronebay.used: the sum of the volumes of the holders of fit.drones.
dronebay_used(holders) ==
    sum_over([holder \in DOMAIN holders |->
                holders[holder].attributes[Attribute.volume]],
             fit_drones(holders))

\* Python's None as the value of a statistic, and a number as one.
None == <<>>

Some(value) == <<value>>

\* st.dronebay.output: the drone capacity of the ship, None when the fit has
\* no ship or the ship has no such attribute.
dronebay_output(ship) ==
    IF ship.present /\ Attribute.drone_capacity \in DOMAIN ship.attributes
    THEN Some(ship.attributes[Attribute.drone_capacity])
    ELSE None

\* A variant of volatile_get that computes the value anew on every read.
volatile_get_anew(cache, stat, value) == (stat :> value) @@ cache

\* The memo after a read of the volatile attribute `stat`, whose value
\* computed now is `value`: the value is computed and kept unless one is
\* kept already.  The value read is the one kept.
volatile_get(cache, stat, value) ==
    IF stat \in DOMAIN cache THEN cache ELSE cache @@ (stat :> value)

\* st._clear_volatile_attrs(): the memo with nothing kept.
clear_volatile_attrs(cache) == <<>>

\* The holders of the fits of test_dronebay_volume.py.
Holder == {"holder1", "holder2"}

\* A holder of volume `volume` in `container`.
HolderIn(container, volume) ==
    [container |-> container, attributes |-> (Attribute.volume :> volume)]

\* The stat tracker of a fit with no ship and no holder.
NoStats ==
    [holders |-> [holder \in Holder |-> HolderIn("none", 0)], ship |-> NoShip,
     cache |-> <<>>, op |-> "init"]

(***************************************************************************)
(* State.                                                                  *)
(***************************************************************************)
VARIABLES
    reg,         \* the AffectionRegister
    calc_svc,    \* the calculation service: _current_ship, _current_char
    registered,  \* affectors passed to register_affector and not yet to
                 \* unregister_affector
    log,         \* the log records written by the latest call that can
                 \* write one (any but get_affectors and attribute reads)
    raised,      \* whether the latest call raised to its caller
    fit,         \* the state of every item on the fit, "none" off the fit
    last,        \* the latest change of the fit: its name and item
    attr_read,   \* the latest attribute read since then: item, attribute
                 \* and value
    rah_results, \* the results the hardener simulator holds
    sim_log,     \* the records the simulator has logged since the latest
                 \* change of the fit
    run,         \* a run of the simulator, tick by tick
    attrs,       \* the memo of attribute values of the items of the fit
    built,       \* an effect and the outcome of its build
    stats        \* the stat tracker: holders, ship and volatile attributes

vars ==
    <<reg, calc_svc, registered, log, raised, fit, last, attr_read,
      rah_results, sim_log, run, attrs, built, stats>>

fit_vars ==
    <<fit, last, attr_read, rah_results, sim_log, run, attrs, built, stats>>

\* The variables of the register, the fit and the simulator.
register_vars ==
    <<reg, calc_svc, registered, log, raised, fit, last, attr_read,
      rah_results, sim_log, run, attrs>>

NoRead == [item |-> NoItem, attr |-> 0, value |-> 0]

\* No run of the simulator is under way.
NoRun ==
    [status |-> "idle", profile |-> <<>>, max_ticks |-> 0, durations |-> <<>>,
     shifts |-> <<>>, sim |-> <<>>, history |-> <<>>, ticks |-> 0,
     result |-> <<>>]

Init ==
    /\ reg = EmptyRegister
    /\ calc_svc = [current_ship |-> NoItem, current_char |-> NoItem]
    /\ registered = {}
    /\ log = <<>>
    /\ raised = FALSE
    /\ fit = [item \in Item |-> "none"]
    /\ last = [op |-> "init", item |-> NoItem]
    /\ attr_read = NoRead
    /\ rah_results = NoResults
    /\ sim_log = <<>>
    /\ run = NoRun
    /\ attrs = <<>>
    /\ built = NoBuild
    /\ stats = NoStats

(***************************************************************************)
(* The register driven call by call.                                       *)
(***************************************************************************)
RegisterAffectee(item) ==
    /\ reg' = register_affectee(reg, calc_svc, item)
    /\ log' = <<>>
    /\ raised' = FALSE
    /\ UNCHANGED <<calc_svc, registered, fit_vars>>

UnregisterAffectee(item) ==
    /\ reg' = unregister_affectee(reg, calc_svc, item)
    /\ log' = <<>>
    /\ raised' = FALSE
    /\ UNCHANGED <<calc_svc, registered, fit_vars>>

RegisterAffector(affector) ==
    /\ Cardinality(registered \cup held_affectors(reg) \cup {affector})
         <= MaxAffectors
    /\ LET done == register_affector(reg, calc_svc, affector)
       IN  /\ reg' = done.reg
           /\ log' = done.log
           /\ raised' = done.raised
    /\ registered' = registered \cup {affector}
    /\ UNCHANGED <<calc_svc, fit_vars>>

UnregisterAffector(affector) ==
    /\ affector \in registered
    /\ LET done == unregister_affector(reg, calc_svc, affector)
       IN  /\ reg' = done.reg
           /\ log' = done.log
           /\ raised' = done.raised
    /\ registered' = registered \ {affector}
    /\ UNCHANGED <<calc_svc, fit_vars>>

GetAffectees(affector) ==
    /\ affector \in registered \cup held_affectors(reg)
    /\ LET got == get_affectees(reg, calc_svc, affector)
       IN  /\ log' = got.log
           /\ raised' = got.raised
    /\ UNCHANGED <<reg, calc_svc, registered, fit_vars>>

GetAffectors(item) ==
    /\ raised' = FALSE
    /\ UNCHANGED <<reg, calc_svc, registered, log, fit_vars>>

\* The fit binds another ship (or none).
SetCurrentShip(ship) ==
    /\ calc_svc' = [calc_svc EXCEPT !.current_ship = ship]
    /\ log' = <<>>
    /\ raised' = FALSE
    /\ UNCHANGED <<reg, registered, fit_vars>>

\* The fit binds another character (or none).
SetCurrentChar(char) ==
    /\ calc_svc' = [calc_svc EXCEPT !.current_char = char]
    /\ log' = <<>>
    /\ raised' = FALSE
    /\ UNCHANGED <<reg, registered, fit_vars>>

Next ==
    \/ \E item \in CallItem : RegisterAffectee(item)
    \/ \E item \in CallItem : UnregisterAffectee(item)
    \/ \E affector \in CallAffector : RegisterAffector(affector)
    \/ \E affector \in CallAffector : UnregisterAffector(affector)
    \/ \E affector \in CallAffector : GetAffectees(affector)
    \/ \E item \in CallItem : GetAffectors(item)
    \/ \E ship \in {NoItem, "ship1"} : SetCurrentShip(ship)
    \/ \E char \in {NoItem, "char"} : SetCurrentChar(char)

Spec == Init /\ [][Next]_vars

(***************************************************************************)
(* The register driven call by call as the calculation service drives it:  *)
(* an affector is handed to register_affector once, then to                *)
(* unregister_affector once.  The affectees and the current ship and       *)
(* character change in any order.                                          *)
(***************************************************************************)
RegisterNew(affector, most) ==
    /\ affector \notin registered
    /\ affector \notin held_affectors(reg)
    /\ Cardinality(registered) < most
    /\ LET done == register_affector(reg, calc_svc, affector)
       IN  /\ reg' = done.reg
           /\ log' = done.log
           /\ raised' = done.raised
    /\ registered' = registered \cup {affector}
    /\ UNCHANGED <<calc_svc, fit_vars>>

\* The affectors aimed at single items.
NextDirect ==
    \/ \E item \in DirectItem : RegisterAffectee(item)
    \/ \E item \in DirectItem : UnregisterAffectee(item)
    \/ \E affector \in DirectAffector : RegisterNew(affector, MaxDirect)
    \/ \E affector \in DirectAffector : UnregisterAffector(affector)
    \/ \E ship \in {NoItem, "ship1"} : SetCurrentShip(ship)
    \/ \E char \in {NoItem, "char"} : SetCurrentChar(char)

SpecDirect == Init /\ [][NextDirect]_vars

\* The affectors aimed at domains and skill requirements.
NextBroadcast ==
    \/ \E item \in BroadcastItem : RegisterAffectee(item)
    \/ \E item \in BroadcastItem : UnregisterAffectee(item)
    \/ \E affector \in BroadcastAffector : RegisterNew(affector, MaxBroadcast)
    \/ \E affector \in BroadcastAffector : UnregisterAffector(affector)
    \/ \E ship \in {NoItem, "ship1"} : SetCurrentShip(ship)
    \/ \E char \in {NoItem, "char"} : SetCurrentChar(char)

SpecBroadcast == Init /\ [][NextBroadcast]_vars

(***************************************************************************)
(* The register driven by the fit.                                         *)
(***************************************************************************)
\* The set of the members of a sequence.
Range(seq) == {seq[n] : n \in 1..Len(seq)}

\* fit.<container>.add(item), fit.ship = item: the fit has one ship and one
\* character at most, and a charge sits in a module of the fit.
AddItem(item, state) ==
    /\ fit[item] = "none"
    /\ IsShip(item) => \A other \in Item : IsShip(other) => fit[other] = "none"
    /\ item = "charge" => fit["mod"] # "none"
    /\ IsModuleLow(item) =>
         \A other \in Item : IsModuleLow(other) => fit[other] = "none"
    /\ \E done \in {add_item(reg, calc_svc, item, state)} :
           /\ attrs' = clear_affectors_dependents(
                          done.reg, done.svc, attrs,
                          affectors_between(item, "none", state))
           /\ reg' = done.reg
           /\ calc_svc' = done.svc
           /\ log' = done.log
           /\ raised' = done.raised
    /\ registered' =
           registered \cup Range(affectors_between(item, "none", state))
    /\ fit' = [fit EXCEPT ![item] = state]
    /\ last' = [op |-> "add_item", item |-> item]
    /\ attr_read' = NoRead
    /\ rah_results' = NoResults
    /\ sim_log' = <<>>
    /\ UNCHANGED <<run, built, stats>>

\* fit.<container>.remove(item), fit.ship = None
RemoveItem(item) ==
    /\ fit[item] # "none"
    /\ item = "mod" => fit["charge"] = "none"
    /\ \E done \in {remove_item(reg, calc_svc, item, fit[item])} :
           /\ attrs' = drop_item(
                          clear_affectors_dependents(
                              reg, calc_svc, attrs,
                              affectors_between(item, "none", fit[item])),
                          item)
           /\ reg' = done.reg
           /\ calc_svc' = done.svc
           /\ log' = done.log
           /\ raised' = done.raised
    /\ registered' =
           registered \ Range(affectors_between(item, "none", fit[item]))
    /\ fit' = [fit EXCEPT ![item] = "none"]
    /\ last' = [op |-> "remove_item", item |-> item]
    /\ attr_read' = NoRead
    /\ rah_results' = NoResults
    /\ sim_log' = <<>>
    /\ UNCHANGED <<run, built, stats>>

\* item.state = state
SetState(item, state) ==
    /\ fit[item] \notin {"none", state}
    /\ \E done \in {set_state(reg, calc_svc, item, fit[item], state)} :
           /\ attrs' = IF StateRank(state) > StateRank(fit[item])
                        THEN clear_affectors_dependents(
                                 done.reg, done.svc, attrs,
                                 affectors_between(item, fit[item], state))
                        ELSE clear_affectors_dependents(
                                 reg, calc_svc, attrs,
                                 affectors_between(item, state, fit[item]))
           /\ reg' = done.reg
           /\ calc_svc' = done.svc
           /\ log' = done.log
           /\ raised' = done.raised
    /\ registered' =
           (registered \ Range(affectors_between(item, "none", fit[item])))
           \cup Range(affectors_between(item, "none", state))
    /\ fit' = [fit EXCEPT ![item] = state]
    /\ last' = [op |-> "set_state", item |-> item]
    /\ attr_read' = NoRead
    /\ rah_results' = NoResults
    /\ sim_log' = <<>>
    /\ UNCHANGED <<run, built, stats>>

\* item.attributes[attr], with the memo of attribute values left out: the
\* value is computed and nothing is kept (ReadCached is the read that
\* keeps it).
ReadAttr(item, attr) ==
    /\ fit[item] # "none"
    /\ \E got \in {get_results(reg, calc_svc, fit, rah_results, item, attr)} :
           /\ rah_results' = got.results
           /\ sim_log' = sim_log \o got.log
           /\ attr_read' = [item |-> item, attr |-> attr,
                            value |-> calculate(reg, got.results.resonances,
                                                item, attr)]
    /\ raised' = FALSE
    /\ UNCHANGED <<reg, calc_svc, registered, log, fit, last, run, attrs,
                   built, stats>>

NextFit ==
    \/ \E item \in FitItem : \E state \in states_of(item) : AddItem(item, state)
    \/ \E item \in FitItem : RemoveItem(item)
    \/ \E item \in FitItem : \E state \in states_of(item) : SetState(item, state)
    \/ \E item \in FitItem : \E attr \in {1, 3} : ReadAttr(item, attr)

SpecFit == Init /\ [][NextFit]_vars

(***************************************************************************)
(* The fits of the reactive armor hardener tests.                          *)
(***************************************************************************)
NextRah ==
    \/ \E item \in RahItem : \E state \in states_of(item) : AddItem(item, state)
    \/ \E item \in RahItem : RemoveItem(item)
    \/ \E item \in RahItem : \E state \in states_of(item) : SetState(item, state)
    \/ \E item \in RahItem : \E attr \in ResAttr : ReadAttr(item, attr)

SpecRah == Init /\ [][NextRah]_vars

(***************************************************************************)
(* A run of the simulator, tick by tick, on the fits of                    *)
(* test_rah_results.py: a ship, one hardener or two, the second active or  *)
(* overloaded, under a damage profile and a limit of ticks the tests set.  *)
(***************************************************************************)
\* The ships: of resonances (0.5, 0.65, 0.75, 0.9) and of 0.675 each.
SimShip == {"ship1", "ship2"}

\* The damage profiles: the uniform one and DamageProfile(0, 1, 1, 1).
SimProfile ==
    {incoming_damage,
     [incoming_damage EXCEPT ![armor_em_damage_resonance] = 0]}

\* The modules of the fit with their states, in the order they are
\* equipped.
SimModules ==
    {<<<<"rah", "active">>>>,
     <<<<"rah", "active">>, <<"rah2", "active">>>>,
     <<<<"rah", "active">>, <<"rah2", "overload">>>>,
     <<<<"rah0", "active">>>>}

\* The values MAX_SIMULATION_TICKS is given.
SimMaxTicks == {5, 75, MAX_SIMULATION_TICKS}

RECURSIVE compose_fit(_, _, _)
\* The register and the service once the items of `items`, pairs of an item
\* and its state, have joined the fit one after the other.
compose_fit(r, svc, items) ==
    IF items = <<>>
    THEN [reg |-> r, svc |-> svc]
    ELSE CHOOSE result \in
           {compose_fit(added.reg, added.svc, Tail(items)) :
              added \in {add_item(r, svc, Head(items)[1], Head(items)[2])}} :
             TRUE

\* A variant of finish_run that keeps the history.
finish_run_keeping_history(r, status, result, ticks) ==
    [r EXCEPT !.status = status, !.result = result, !.ticks = ticks]

\* The run once it has ended with `status` and `result`: the history and
\* the state of the simulation are dropped.
finish_run(r, status, result, ticks) ==
    [r EXCEPT !.status = status, !.result = result, !.ticks = ticks,
              !.history = <<>>, !.sim = <<>>]

InitSim ==
    \E ship \in SimShip, profile \in SimProfile, modules \in SimModules,
       max_ticks \in SimMaxTicks :
      \E composed \in {compose_fit(EmptyRegister,
                                   [current_ship |-> NoItem,
                                    current_char |-> NoItem],
                                   <<<<ship, "offline">>>> \o modules)} :
        /\ reg = composed.reg
        /\ calc_svc = composed.svc
        /\ registered =
             UNION {Range(affectors_between(modules[n][1], "none", modules[n][2])) :
                      n \in 1..Len(modules)}
             \cup Range(affectors_between(ship, "none", "offline"))
        /\ log = <<>>
        /\ raised = FALSE
        /\ fit = [item \in Item |->
                    IF item = ship THEN "offline"
                    ELSE IF \E n \in 1..Len(modules) : modules[n][1] = item
                    THEN (CHOOSE m \in Range(modules) : m[1] = item)[2]
                    ELSE "none"]
        /\ last = [op |-> "add_item", item |-> modules[Len(modules)][1]]
        /\ attr_read = NoRead
        /\ rah_results = NoResults
        /\ sim_log = <<>>
        /\ run = [NoRun EXCEPT !.profile = profile, !.max_ticks = max_ticks]
        /\ attrs = <<>>
        /\ built = NoBuild
        /\ stats = NoStats

\* The first tick of a run: the simulation at its start.
StartRun ==
    /\ run.status = "idle"
    /\ calc_svc.current_ship # NoItem
    /\ running_rahs(fit) # {}
    /\ \E start \in {sim_start(reg, running_rahs(fit))} :
         run' = [run EXCEPT
                   !.status = "running",
                   !.durations = rah_durations(reg, running_rahs(fit)),
                   !.shifts = rah_shifts(reg, running_rahs(fit)),
                   !.sim = start,
                   !.history = <<tick_state(start)>>,
                   !.ticks = 1]
    /\ UNCHANGED <<reg, calc_svc, registered, log, raised, fit, last,
                   attr_read, rah_results, sim_log, attrs, built, stats>>

\* A tick raises: the run ends, the warning is logged and the unsimulated
\* resonances are the results.
RunRaise ==
    /\ run.status = "running"
    /\ sim_raises(run.durations)
    /\ run' = finish_run(run, "raised", <<>>, run.ticks)
    /\ sim_log' = Append(sim_log, sim_warning)
    /\ rah_results' = [computed |-> TRUE, resonances |-> NoOverrides]
    /\ UNCHANGED <<reg, calc_svc, registered, log, raised, fit, last,
                   attr_read, attrs, built, stats>>

\* A tick: its state closes a loop and the run ends with the result of the
\* loop, or it is recorded.
RunTick ==
    /\ run.status = "running"
    /\ ~sim_raises(run.durations)
    /\ Len(run.history) < run.max_ticks
    /\ \E next \in {sim_tick(reg, calc_svc, run.profile, run.durations,
                              run.shifts, run.sim)} :
         IF places_of(run.history, tick_state(next)) # {}
         THEN \E result \in {result_of_loop(run.history, tick_state(next))} :
                /\ run' = finish_run(run, "looped", result, run.ticks + 1)
                /\ rah_results' = [computed |-> TRUE,
                                   resonances |-> sim_overrides(result)]
         ELSE /\ run' = [run EXCEPT !.sim = next,
                                    !.history = Append(@, tick_state(next)),
                                    !.ticks = @ + 1]
              /\ UNCHANGED rah_results
    /\ UNCHANGED <<reg, calc_svc, registered, log, raised, fit, last,
                   attr_read, sim_log, attrs, built, stats>>

\* The ticks have run out with no loop found: the run ends with the result
\* of the history less its first ticks.
RunExhaust ==
    /\ run.status = "running"
    /\ ~sim_raises(run.durations)
    /\ Len(run.history) >= run.max_ticks
    /\ \E result \in {result_without_loop(reg, run.durations, run.history)} :
         /\ run' = finish_run(run, "exhausted", result, run.ticks)
         /\ rah_results' = [computed |-> TRUE,
                            resonances |-> sim_overrides(result)]
    /\ UNCHANGED <<reg, calc_svc, registered, log, raised, fit, last,
                   attr_read, sim_log, attrs, built, stats>>

NextSim ==
    \/ StartRun
    \/ RunRaise
    \/ RunTick
    \/ RunExhaust

SpecSim == InitSim /\ [][NextSim]_vars

\* A run that has begun goes on to its end.
SpecSimLive == SpecSim /\ WF_vars(NextSim)

(***************************************************************************)
(* Reads through the memo of attribute values, on a fit of a ship, a       *)
(* character, a skill and a module with its charge.                        *)
(***************************************************************************)
CacheItem == {"ship1", "char", "skill", "mod", "charge"}

\* The attributes read: those the modifiers of the items change.
CacheRead == (CacheItem \X {3}) \cup {<<"mod", 1>>}

\* item.attrs[attr]
ReadCached(item, attr) ==
    /\ fit[item] # "none"
    /\ IF <<item, attr>> \in DOMAIN attrs
       THEN UNCHANGED <<attrs, rah_results, sim_log>>
       ELSE \E got \in {get_results(reg, calc_svc, fit, rah_results, item, attr)} :
              /\ rah_results' = got.results
              /\ sim_log' = sim_log \o got.log
              /\ attrs' = attrs_get(reg, got.results.resonances, attrs, item, attr)
    /\ raised' = FALSE
    /\ UNCHANGED <<reg, calc_svc, registered, log, fit, last, attr_read, run,
                   built, stats>>

NextCache ==
    \/ \E item \in CacheItem : \E state \in states_of(item) : AddItem(item, state)
    \/ \E item \in CacheItem : RemoveItem(item)
    \/ \E item \in CacheItem : \E state \in states_of(item) : SetState(item, state)
    \/ \E read \in CacheRead : ReadCached(read[1], read[2])

SpecCache == Init /\ [][NextCache]_vars

(***************************************************************************)
(* The effect build, on effects of every category whose expressions are    *)
(* the trees of testModLoc.py, for a few locations and operators, one of   *)
(* the locations unknown.                                                  *)
(***************************************************************************)
BuildLocation == {"Ship", "Char", "Nowhere"}

BuildOperator == {"PostPercent", "PreMul"}

\* The trees of pre-expressions and of post-expressions.
BuildTree(top) ==
    {loc_mod_tree(top, location, operator) :
       location \in BuildLocation, operator \in BuildOperator}

\* A new effect is made.
MakeEffect(categoryId, preExpression, postExpression) ==
    /\ built' = unbuilt(Effect(categoryId, preExpression, postExpression))
    /\ built' # built
    /\ UNCHANGED <<register_vars, stats>>

\* infos, status = InfoBuilder().build(effect, Logger())
Build ==
    /\ ~built.done
    /\ \E result \in {build(built.effect)} :
         built' = [built EXCEPT !.done = TRUE, !.infos = result.infos,
                                !.status = result.status,
                                !.raised = result.raised]
    /\ UNCHANGED <<register_vars, stats>>

NextBuild ==
    \/ \E categoryId \in CategoryId,
          preExpression \in BuildTree(Operand.add_loc_mod),
          postExpression \in BuildTree(Operand.rm_loc_mod) :
         MakeEffect(categoryId, preExpression, postExpression)
    \/ Build

SpecBuild == Init /\ [][NextBuild]_vars

(***************************************************************************)
(* The stat tracker on the fits of test_dronebay_volume.py: two holders,   *)
(* put into the drone container or into the rig container, and a ship.     *)
(***************************************************************************)
\* The volumes a holder is given, in tenths: 50, 10 and 55.5 for the first,
\* 30 and -30 for the second.
HolderVolume ==
    [holder \in Holder |->
       IF holder = "holder1" THEN {500, 100, 555} ELSE {300, -300}]

\* The ships set on the fit: none, one with no attribute, one of drone
\* capacity 50.
StatShip ==
    {NoShip, ShipHolder(<<>>), ShipHolder(Attribute.drone_capacity :> 500)}

\* The drone capacities the ship is given: 50 and 60.
ShipCapacity == {500, 600}

\* fit.<container>.add(holder): a change of the fit, which clears the
\* volatile attributes.
FitAdd(holder, container, volume) ==
    /\ stats.holders[holder].container = "none"
    /\ stats' = [stats EXCEPT !.holders[holder] = HolderIn(container, volume),
                              !.cache = clear_volatile_attrs(@),
                              !.op = "add"]
    /\ UNCHANGED <<register_vars, built>>

\* fit.<container>.remove(holder)
FitRemove(holder) ==
    /\ stats.holders[holder].container # "none"
    /\ stats' = [stats EXCEPT !.holders[holder] = HolderIn("none", 0),
                              !.cache = clear_volatile_attrs(@),
                              !.op = "remove"]
    /\ UNCHANGED <<register_vars, built>>

\* fit.ship = ship
SetShip(ship) ==
    /\ stats.ship # ship
    /\ stats' = [stats EXCEPT !.ship = ship,
                              !.cache = clear_volatile_attrs(@),
                              !.op = "set_ship"]
    /\ UNCHANGED <<register_vars, built>>

\* holder.attributes[Attribute.volume] = volume: no change of the fit.
SetVolume(holder, volume) ==
    /\ stats.holders[holder].container # "none"
    /\ stats.holders[holder].attributes[Attribute.volume] # volume
    /\ stats' = [stats EXCEPT
                   !.holders[holder].attributes[Attribute.volume] = volume,
                   !.op = "set_volume"]
    /\ UNCHANGED <<register_vars, built>>

\* ship_holder.attributes[Attribute.drone_capacity] = capacity
SetCapacity(capacity) ==
    /\ stats.ship.present
    /\ Attribute.drone_capacity \in DOMAIN stats.ship.attributes
    /\ stats.ship.attributes[Attribute.drone_capacity] # capacity
    /\ stats' = [stats EXCEPT
                   !.ship.attributes[Attribute.drone_capacity] = capacity,
                   !.op = "set_capacity"]
    /\ UNCHANGED <<register_vars, built>>

\* st.dronebay.used
ReadUsed ==
    /\ stats' = [stats EXCEPT
                   !.cache = volatile_get(@, "used",
                                          Some(dronebay_used(stats.holders))),
                   !.op = "read_used"]
    /\ UNCHANGED <<register_vars, built>>

\* st.dronebay.output
ReadOutput ==
    /\ stats' = [stats EXCEPT
                   !.cache = volatile_get(@, "output",
                                          dronebay_output(stats.ship)),
                   !.op = "read_output"]
    /\ UNCHANGED <<register_vars, built>>

\* st._clear_volatile_attrs()
ClearVolatile ==
    /\ stats' = [stats EXCEPT !.cache = clear_volatile_attrs(@),
                              !.op = "clear_volatile"]
    /\ UNCHANGED <<register_vars, built>>

NextStat ==
    \/ \E holder \in Holder, container \in {"drones", "rigs"} :
         \E volume \in HolderVolume[holder] : FitAdd(holder, container, volume)
    \/ \E holder \in Holder : FitRemove(holder)
    \/ \E ship \in StatShip : SetShip(ship)
    \/ \E holder \in Holder : \E volume \in HolderVolume[holder] :
         SetVolume(holder, volume)
    \/ \E capacity \in ShipCapacity : SetCapacity(capacity)
    \/ ReadUsed
    \/ ReadOutput
    \/ ClearVolatile

SpecStat == Init /\ [][NextStat]_vars

(***************************************************************************)
(* Properties of the register and of the fit.                              *)
(***************************************************************************)
\* The fit has a ship.
HasShip == \E item \in Item : IsShip(item) /\ fit[item] # "none"

\* The modifier of the affector is malformed: its filter is unknown, or
\* the filter does not support its domain.  (The owner_skillrq filter has
\* no use for the domain and supports any.)
Malformed(a) ==
    LET filter == modifier(a).tgt_filter
        domain == modifier(a).tgt_domain
    IN  \/ filter \notin ModTgtFilter
        \/ filter = "item" /\ domain \notin ModDomain
        \/ /\ filter \in {"domain", "domain_group", "domain_skillrq"}
           /\ domain \notin {"self", "character", "ship"}

\* The register cannot resolve the target of the affector: the modifier is
\* malformed, or it aims at the domain of a carrier that is neither the
\* ship nor the character.
Unresolvable(svc, a) ==
    \/ Malformed(a)
    \/ /\ modifier(a).tgt_filter \in {"domain", "domain_group", "domain_skillrq"}
       /\ modifier(a).tgt_domain = "self"
       /\ carrier_item(a) \notin {svc.current_ship, svc.current_char}

\* The places (index, key) section 4.1 prescribes for a resolvable affector.
PrescribedPlaces(r, svc, a) ==
    LET filter == modifier(a).tgt_filter
        domain == modifier(a).tgt_domain
        carrier == carrier_item(a)
        target == CASE domain = "self" -> carrier
                    [] domain = "character" -> svc.current_char
                    [] domain = "ship" -> svc.current_ship
                    [] OTHER -> NoItem
        broadcast == IF domain # "self" THEN domain
                     ELSE IF carrier = svc.current_ship THEN "ship"
                          ELSE "character"
        skill == IF modifier(a).tgt_filter_extra_arg = current_self
                 THEN type_id(carrier)
                 ELSE modifier(a).tgt_filter_extra_arg
    IN  CASE filter = "item" /\ domain = "other" ->
               {<<"affector_item_other", carrier>>}
               \cup {<<"affector_item_active", o>> :
                       o \in others(carrier) \cap r.affectee}
          [] filter = "item" /\ domain # "other" ->
               IF target \in r.affectee
               THEN {<<"affector_item_active", target>>}
               ELSE {<<"affector_item_awaitable", carrier>>}
          [] filter = "domain" -> {<<"affector_domain", broadcast>>}
          [] filter = "domain_group" ->
               {<<"affector_domain_group",
                  <<broadcast, modifier(a).tgt_filter_extra_arg>>>>}
          [] filter = "domain_skillrq" ->
               {<<"affector_domain_skillrq", <<broadcast, skill>>>>}
          [] filter = "owner_skillrq" -> {<<"affector_owner_skillrq", skill>>}

\* The register with the affector at (adding) or away from the places.
WithPlaces(r, places, a, adding) ==
    [name \in DOMAIN r |->
       IF adding
       THEN r[name] \cup {<<p[2], a>> : p \in {q \in places : q[1] = name}}
       ELSE r[name] \ {<<p[2], a>> : p \in {q \in places : q[1] = name}}]

\* C1: for every affector registered with the fit, every item that
\* get_affectees returns for it is a registered affectee, and get_affectors
\* of that item returns the affector.
C1_AffecteesAreAffected ==
    \A a \in registered :
      \A X \in get_affectees(reg, calc_svc, a).value :
        X \in reg.affectee /\ a \in get_affectors(reg, X)

\* A direct affector aimed at the ship and a broadcast affector are
\* registered and both have affectees.
C1_Witness ==
    /\ \E a \in registered :
         /\ modifier(a).tgt_filter = "item"
         /\ modifier(a).tgt_domain = "ship"
         /\ get_affectees(reg, calc_svc, a).value # {}
    /\ \E a \in registered :
         /\ modifier(a).tgt_filter = "domain_skillrq"
         /\ get_affectees(reg, calc_svc, a).value # {}

\* C2: for every registered affectee X, get_affectors(X) is exactly the set
\* of the registered affectors whose get_affectees contains X.
C2_AffectorsAreExactlyThoseAimedAt ==
    \A X \in reg.affectee :
      get_affectors(reg, X) =
        {a \in registered : X \in get_affectees(reg, calc_svc, a).value}

\* C3: for an item that is not registered, register_affectee followed at
\* once by unregister_affectee gives back the register as it was: the
\* affectee set and every index.
C3_AddThenRemoveRestores ==
    \A X \in CallItem \ reg.affectee :
      unregister_affectee(register_affectee(reg, calc_svc, X), calc_svc, X)
        = reg

\* Registering some unregistered item promotes an awaitable affector.
C3_Witness ==
    \E X \in CallItem \ reg.affectee :
      /\ register_affectee(reg, calc_svc, X).affector_item_awaitable
           # reg.affector_item_awaitable
      /\ storage_contains(
             register_affectee(reg, calc_svc, X).affector_item_active, X)

\* C4: once every item that joined the fit has left it, each through the
\* nested lifecycle, the affectee set and every index of the register are
\* empty again.
C4_EmptyFitEmptyRegister ==
    (\A item \in Item : fit[item] = "none") => reg = EmptyRegister

\* The item with the malformed modifier has just left the fit, which is
\* empty, and the removal of the malformed modifier was logged.
C4_Witness ==
    /\ last = [op |-> "remove_item", item |-> "indep"]
    /\ \A item \in Item : fit[item] = "none"
    /\ Len(log) = 1
    /\ reg = EmptyRegister

\* C5: register_affector puts the affector at every place prescribed for
\* it and unregister_affector takes it away from every one of them, or,
\* when the affector cannot be resolved, neither changes any index.
C5_AllOrNothing ==
    \A a \in CallAffector :
      LET added == register_affector(reg, calc_svc, a)
          removed == unregister_affector(reg, calc_svc, a)
          places == PrescribedPlaces(reg, calc_svc, a)
      IN  IF Unresolvable(calc_svc, a)
          THEN added.reg = reg /\ removed.reg = reg
          ELSE /\ added.reg = WithPlaces(reg, places, a, TRUE)
               /\ removed.reg = WithPlaces(reg, places, a, FALSE)

\* An affector aimed at the other item was registered while that item was
\* an affectee: it is at both of its places.
C5_Witness ==
    \E a \in registered :
      /\ modifier(a).tgt_domain = "other"
      /\ <<carrier_item(a), a>> \in reg.affector_item_other
      /\ \E o \in others(carrier_item(a)) : <<o, a>> \in reg.affector_item_active

C8_Due ==
    {a \in Affector :
       /\ fit[carrier_item(a)] # "none"
       /\ StateRank(fit[carrier_item(a)]) >= StateRank(modifier(a).state)}

Resonances(em, thermal, kinetic, explosive) ==
    [attr \in ResAttr |->
       <<em, thermal, kinetic, explosive>>[res_index(attr)]]

\* The simulator has to run for the module: its default effect is the
\* hardener effect, it is active or overloaded, and the fit has a ship.
Simulated(item) ==
    /\ default_effect(item) = "adaptive_armor_hardener"
    /\ fit[item] \in {"active", "overload"}
    /\ HasShip

\* C9: a resonance read from a module is the simulated one if and only if
\* the module's default effect is the hardener effect, its state is active
\* or overload and the fit has a ship; otherwise it is the unsimulated one.
C9_SimulatedIffTriggered ==
    \A item \in {"rah", "plain"} :
      attr_read.item = item =>
        attr_read.value =
          IF Simulated(item)
          THEN Resonances(10000, 9250, 8200, 6550)[attr_read.attr]
          ELSE Resonances(8500, 8500, 8500, 8500)[attr_read.attr]

\* Simulated resonances have been read from the running hardener.
C9_Witness ==
    /\ Simulated("rah")
    /\ attr_read =
         [item |-> "rah", attr |-> armor_explosive_damage_resonance,
          value |-> 6550]

\* C10: a resonance read from the ship or from the hardener after the
\* hardener joined or left the fit or changed its state is that of the
\* present configuration, and results the simulator holds are those of a
\* simulation of the present configuration.
C10_ReadsFollowConfiguration ==
    /\ attr_read.item = "ship1" =>
         attr_read.value =
           IF Simulated("rah")
           THEN Resonances(5000, 6012, 6150, 5895)[attr_read.attr]
           ELSE IF \E item \in {"rah", "plain", "rah0"} :
                     fit[item] \in {"active", "overload"}
                THEN Resonances(4250, 5525, 6375, 7650)[attr_read.attr]
                ELSE Resonances(5000, 6500, 7500, 9000)[attr_read.attr]
    /\ attr_read.item = "rah" =>
         attr_read.value =
           IF Simulated("rah")
           THEN Resonances(10000, 9250, 8200, 6550)[attr_read.attr]
           ELSE Resonances(8500, 8500, 8500, 8500)[attr_read.attr]
    /\ rah_results.computed =>
         rah_results.resonances =
           run_simulation(reg, calc_svc, fit, incoming_damage,
                          MAX_SIMULATION_TICKS).resonances

\* The hardener has been switched to online, and the ship reads its own
\* resonance.
C10_Witness ==
    /\ last = [op |-> "set_state", item |-> "rah"]
    /\ fit["rah"] = "online"
    /\ attr_read =
         [item |-> "ship1", attr |-> armor_thermal_damage_resonance,
          value |-> 6500]

\* A hardener whose cycle time is 0 is running on a fit with a ship: a run
\* of the simulator raises.
C11_RunRaises ==
    /\ fit["rah0"] \in {"active", "overload"}
    /\ HasShip

\* C11: a run of the simulator that raises does not raise to the reader of
\* the attribute; it logs the one warning 'unexpected exception, setting
\* unsimulated resonances', once however many attributes are read, the
\* hardener reads its unsimulated resonances and the ship the resonances
\* these give; a run that does not raise logs nothing.
C11_ExceptionIsLoggedOnce ==
    /\ attr_read # NoRead => ~raised
    /\ sim_log =
         IF C11_RunRaises /\ rah_results.computed
         THEN <<sim_warning>> ELSE <<>>
    /\ C11_RunRaises /\ rah_results.computed =>
         rah_results.resonances = NoOverrides
    /\ C11_RunRaises /\ attr_read.item = "rah0" =>
         attr_read.value = Resonances(8500, 8500, 8500, 8500)[attr_read.attr]
    /\ C11_RunRaises /\ attr_read.item = "ship1" =>
         attr_read.value = Resonances(4250, 5525, 6375, 7650)[attr_read.attr]

\* The run has raised and the ship's thermal resonance has been read.
C11_Witness ==
    /\ C11_RunRaises
    /\ sim_log = <<sim_warning>>
    /\ attr_read =
         [item |-> "ship1", attr |-> armor_thermal_damage_resonance,
          value |-> 5525]

(***************************************************************************)
(* Properties of a run of the simulator, tick by tick.                     *)
(***************************************************************************)
\* The sum of the four resonances.
SumOfResonances(resonances) == sum_over(resonances, ResAttr)

\* C12: in every tick state of a run, the four resonances of every hardener
\* add up to what its four unsimulated resonances add up to, also after a
\* cycle in which a resonance reached 1.0 and gave less than the shift
\* amount.
C12_SumOfResonancesIsConstant ==
    run.status = "running" =>
      \A n \in 1..Len(run.history) : \A rah \in DOMAIN run.durations :
        SumOfResonances(run.history[n].resonances[rah])
          = SumOfResonances([attr \in ResAttr |->
                               calculate(reg, NoOverrides, rah, attr)])

\* A resonance has reached 1.0 from less than the shift amount below it.
C12_Witness ==
    /\ run.status = "running"
    /\ \E n \in 2..Len(run.history) : \E rah \in DOMAIN run.durations :
         \E attr \in ResAttr :
           /\ run.history[n].resonances[rah][attr] = UNIT
           /\ run.history[n - 1].resonances[rah][attr] < UNIT
           /\ run.history[n - 1].resonances[rah][attr] > UNIT - run.shifts[rah]

\* The time a tick state lasts: until the first hardener finishes its cycle.
TimeOfState(state, durations) ==
    least({durations[rah] - state.cycling[rah] : rah \in DOMAIN durations})

RECURSIVE TimeWeightedSum(_, _, _, _)
\* The sum, over tick states, of the resonance `attr` of hardener `rah`
\* times the time the state lasts.
TimeWeightedSum(states, durations, rah, attr) ==
    IF states = <<>>
    THEN 0
    ELSE TimeOfState(Head(states), durations)
           * Head(states).resonances[rah][attr]
         + TimeWeightedSum(Tail(states), durations, rah, attr)

RECURSIVE TotalTime(_, _)
\* The time tick states last together.
TotalTime(states, durations) ==
    IF states = <<>>
    THEN 0
    ELSE TimeOfState(Head(states), durations)
         + TotalTime(Tail(states), durations)

\* The time-weighted mean of the resonances of every hardener over tick
\* states.
TimeWeightedMean(states, durations) ==
    [rah \in DOMAIN durations |->
       [attr \in ResAttr |->
          TimeWeightedSum(states, durations, rah, attr)
          \div TotalTime(states, durations)]]

\* The tick state the next tick of the run gives.
NextTickState ==
    tick_state(sim_tick(reg, calc_svc, run.profile, run.durations,
                        run.shifts, run.sim))

\* C13: when the state of a tick is one the history holds, the run stops
\* with that tick, the history holds the state once, and the result is the
\* time-weighted mean of the states from that place on, one loop, the ticks
\* before it left out; when it is not, the run goes on.
C13_LoopGivesMeanOfOneLoop ==
    [][(/\ run.status = "running"
        /\ ~sim_raises(run.durations)
        /\ Len(run.history) < run.max_ticks)
       => IF places_of(run.history, NextTickState) # {}
          THEN /\ run'.status = "looped"
               /\ Cardinality(places_of(run.history, NextTickState)) = 1
               /\ run'.result =
                    TimeWeightedMean(
                        SubSeq(run.history,
                               least(places_of(run.history, NextTickState)),
                               Len(run.history)),
                        run.durations)
          ELSE run'.status = "running"]_vars

\* The run of test_double_run_unsynced has stopped at its 82nd tick with the
\* resonances the test expects; the loop began after 45 ticks.
C13_Witness ==
    /\ fit["ship1"] # "none"
    /\ fit["rah"] = "active"
    /\ fit["rah2"] = "overload"
    /\ run.profile = incoming_damage
    /\ run.status = "looped"
    /\ run.ticks = 82
    /\ run.result["rah"] = Resonances(9752, 8350, 8297, 7600)
    /\ run.result["rah2"] = Resonances(9790, 9100, 7960, 7150)

\* The ticks of the initial adaptation in the history of a run: those
\* before the moment the slowest hardener has finished
\* ceil(ceil(15 / shift_amount) * 1.5) cycles.
InitialAdaptationTicks ==
    LET slowest == slowest_rah(run.durations)
        shift_amount == calculate(reg, NoOverrides, slowest,
                                  resistance_shift_amount)
        cycles == (((15 + shift_amount - 1) \div shift_amount) * 3 + 1) \div 2
    IN  Cardinality(
            {n \in 1..Len(run.history) :
               TotalTime(SubSeq(run.history, 1, n - 1), run.durations)
                 < cycles * run.durations[slowest]})

\* The tick states kept when the ticks ran out with no loop found: those
\* after the initial adaptation, or all but the first two when the history
\* is not longer than the initial adaptation.
StatesKept ==
    SubSeq(run.history,
           1 + (IF InitialAdaptationTicks < Len(run.history)
                THEN InitialAdaptationTicks ELSE 2),
           Len(run.history))

\* For every hardener, the mean of its resonances over the tick states
\* in which it starts a cycle.
MeanOverCycles(states) ==
    [rah \in DOMAIN run.durations |->
       [attr \in ResAttr |->
          LET starting(state) == state.cycling[rah] = 0
          IN  sum_resonances(SelectSeq(states, starting), rah, attr)
              \div Len(SelectSeq(states, starting))]]

\* The fit of test_no_loop_ignore_initial_adaptation and of
\* test_no_loop_half_history: a hardener that is active and one that is
\* overloaded, the default damage profile.
UnsyncedFit ==
    /\ fit["ship1"] # "none"
    /\ fit["rah"] = "active"
    /\ fit["rah2"] = "overload"
    /\ run.profile = incoming_damage

\* C14 as stated: when the ticks run out with no loop found, the result is
\* the time-weighted mean of the tick states kept.
C14_NoLoopGivesTimeWeightedMean ==
    [][run.status = "running" /\ run'.status = "exhausted"
       => run'.result = TimeWeightedMean(StatesKept, run.durations)]_vars

\* C14, amended: when the ticks run out with no loop found, the result is,
\* for every hardener, the mean of the resonances it started its cycles
\* with among the tick states kept; with an active and an overloaded
\* hardener of shift amount 6, 10 ticks of 75 are left out and 2 of 5.
C14_NoLoopGivesMeanOverCycles ==
    [][run.status = "running" /\ run'.status = "exhausted"
       => /\ Len(run.history) = run.max_ticks
          /\ run'.result = MeanOverCycles(StatesKept)
          /\ UnsyncedFit /\ run.max_ticks = 75 =>
               Len(StatesKept) = 75 - 10
          /\ UnsyncedFit /\ run.max_ticks = 5 =>
               Len(StatesKept) = 5 - 2]_vars

\* The run of test_no_loop_ignore_initial_adaptation has ended after 75
\* ticks with the resonances the test expects.
C14_Witness ==
    /\ UnsyncedFit
    /\ run.status = "exhausted"
    /\ run.ticks = 75
    /\ run.result["rah"] = Resonances(9709, 8340, 8340, 7609)
    /\ run.result["rah2"] = Resonances(9866, 9116, 7891, 7125)

\* The run has ended: with a loop, with the ticks run out, or raising.
RunEnded == run.status \in {"looped", "exhausted", "raised"}

\* C15: every run ends; it takes MAX_SIMULATION_TICKS ticks at most and
\* never goes on past a tick state its history holds; once it has ended,
\* raising or not, its history is dropped.
C15_RunTerminatesAndDropsHistory ==
    /\ <>RunEnded
    /\ [](run.ticks <= run.max_ticks)
    /\ [](\A n, m \in 1..Len(run.history) :
            run.history[n] = run.history[m] => n = m)
    /\ [](RunEnded => run.history = <<>>)

\* A run has ended raising, after its first tick was recorded.
C15_Witness ==
    /\ run.status = "raised"
    /\ run.ticks = 1
    /\ run.history = <<>>
    /\ sim_log = <<sim_warning>>

(***************************************************************************)
(* Properties of the effect build.                                         *)
(***************************************************************************)
\* The expressions of the effect are one pair of a tree that adds a
\* modification and the tree that removes the same.
IsAddRemovePair(effect) ==
    \E location \in DOMAIN location_names, operator \in DOMAIN operator_names :
      /\ effect.preExpression
           = loc_mod_tree(Operand.add_loc_mod, location, operator)
      /\ effect.postExpression
           = loc_mod_tree(Operand.rm_loc_mod, location, operator)

\* The state and the context of the modifiers of an effect, by the name of
\* the category of the effect.
StateAndContext ==
    [passive |-> <<"offline", "local">>, active |-> <<"active", "local">>,
     target |-> <<"active", "projected">>, online |-> <<"online", "local">>,
     overload |-> <<"overload", "local">>, system |-> <<"offline", "local">>]

\* C16: the build of an effect of category passive, active, target, online,
\* overload or system whose expressions are one add/remove pair has status
\* ok and gives exactly one modifier, whose state and context are those of
\* the category: passive (offline, local), active (active, local), target
\* (active, projected), online (online, local), overload (overload, local),
\* system (offline, local).
C16_CategoryGivesStateAndContext ==
    \A category \in DOMAIN StateAndContext :
      (/\ built.done
       /\ built.effect.categoryId = EffectCategory[category]
       /\ IsAddRemovePair(built.effect))
      => /\ built.status = "okFull"
         /\ Len(built.infos) = 1
         /\ built.infos[1].state = StateAndContext[category][1]
         /\ built.infos[1].context = StateAndContext[category][2]

\* An effect of category target has been built from an add/remove pair into
\* one modifier of context projected.
C16_Witness ==
    /\ built.done
    /\ built.effect.categoryId = EffectCategory.target
    /\ IsAddRemovePair(built.effect)
    /\ Len(built.infos) = 1
    /\ built.infos[1].state = "active"
    /\ built.infos[1].context = "projected"

\* C17: the build of an effect of category area (3) or dungeon (6) has
\* status error and gives no modifier, whatever its expressions, and does
C17_AreaAndDungeonAreErrors ==
    (built.done /\ built.effect.categoryId \in {3, 6})
    => /\ built.status = "error"
       /\ built.infos = <<>>
       /\ ~built.raised

\* An effect of category dungeon whose expressions are an add/remove pair
\* has been built, with status error.
C17_Witness ==
    /\ built.done
    /\ built.effect.categoryId = 6
    /\ IsAddRemovePair(built.effect)
    /\ built.status = "error"
    /\ built.infos = <<>>

(***************************************************************************)
(* Properties of the stat tracker and of the memo of attribute values.     *)
(***************************************************************************)
\* The volatile attributes of the drone bay.
DroneBayStat == {"used", "output"}

\* The step reads the volatile attribute `stat`.
ReadsStat(stat) ==
    \/ stat = "used" /\ ReadUsed
    \/ stat = "output" /\ ReadOutput

\* The value of a volatile attribute computed from the holders and the ship
\* as they are.
ComputedStat(st, stat) ==
    IF stat = "used"
    THEN Some(dronebay_used(st.holders))
    ELSE dronebay_output(st.ship)

\* C18: a memoized value stays as first read while its inputs are changed
\* with no invalidation (a write of a holder's volume or of the ship's drone
\* capacity leaves the memo as it is, and a read returns the value kept),
\* and the first read after the volatile attributes are cleared returns the
\* value computed from the inputs as they then are.
C18_MemoStaysUntilCleared ==
    [][\A stat \in DroneBayStat :
         /\ (stat \in DOMAIN stats.cache
             /\ \/ \E holder \in Holder : \E volume \in HolderVolume[holder] :
                     SetVolume(holder, volume)
                \/ \E capacity \in ShipCapacity : SetCapacity(capacity))
            => /\ stat \in DOMAIN stats'.cache
               /\ stats'.cache[stat] = stats.cache[stat]
         /\ (stat \in DOMAIN stats.cache /\ ReadsStat(stat))
            => stats'.cache[stat] = stats.cache[stat]
         /\ ClearVolatile => stat \notin DOMAIN stats'.cache
         /\ (stat \notin DOMAIN stats.cache /\ ReadsStat(stat))
            => stats'.cache[stat] = ComputedStat(stats, stat)]_vars

\* The reads of test_cache: used and output are read as 80 and 50 while the
\* volumes now sum to 40 and the capacity is 60.
C18_Witness ==
    /\ stats.op \in {"read_used", "read_output"}
    /\ DroneBayStat \subseteq DOMAIN stats.cache
    /\ stats.cache["used"] = Some(800)
    /\ stats.cache["output"] = Some(500)
    /\ ComputedStat(stats, "used") = Some(400)
    /\ ComputedStat(stats, "output") = Some(600)

\* The value of item.attrs[attr] computed from scratch, the simulator run
\* anew where the value needs its results.
FromScratch(item, attr) ==
    calculate(reg,
              get_results(reg, calc_svc, fit, NoResults, item, attr)
                .results.resonances,
              item, attr)

RECURSIVE VolumeOf(_, _)
\* The volumes of the holders of `among` that are in the drone container,
\* added one by one.
VolumeOf(st, among) ==
    IF among = {}
    THEN 0
    ELSE LET holder == CHOOSE h \in among : TRUE
         IN  (IF st.holders[holder].container = "drones"
              THEN st.holders[holder].attributes[Attribute.volume]
              ELSE 0)
             + VolumeOf(st, among \ {holder})

\* C20: the drone bay's used volume, computed on a read with nothing kept,
\* is the sum of the volumes of the holders of the drone container and of
\* no other holder, negative volumes added as they are and nothing rounded;
\* it is 0 when the container is empty.
C20_UsedIsSumOverDrones ==
    [][("used" \notin DOMAIN stats.cache /\ ReadUsed)
       => /\ stats'.cache["used"] = Some(VolumeOf(stats, Holder))
          /\ fit_drones(stats.holders) = {} => stats'.cache["used"] = Some(0)]_vars

\* The used volume has been read as -30: a holder of volume 50 in the rig
\* container, one of volume -30 in the drone container.
C20_Witness ==
    /\ stats.op = "read_used"
    /\ stats.holders["holder1"] = HolderIn("rigs", 500)
    /\ stats.holders["holder2"] = HolderIn("drones", -300)
    /\ "used" \in DOMAIN stats.cache
    /\ stats.cache["used"] = Some(-300)

(***************************************************************************)
(* Properties of the indices of the affectors aimed at single items.       *)
(***************************************************************************)
\* The affector is aimed at one item that the register resolves: its
\* carrier, the ship or the character.
IsDirect(a) ==
    /\ modifier(a).tgt_filter = "item"
    /\ modifier(a).tgt_domain \in {"self", "character", "ship"}

\* The affector is aimed at the other items of its carrier.
IsOther(a) ==
    /\ modifier(a).tgt_filter = "item"
    /\ modifier(a).tgt_domain = "other"

\* The item a direct affector is aimed at, "None" when there is no current
\* ship or character to aim at.
ResolvedTarget(svc, a) ==
    CASE modifier(a).tgt_domain = "self" -> carrier_item(a)
      [] modifier(a).tgt_domain = "character" -> svc.current_char
      [] modifier(a).tgt_domain = "ship" -> svc.current_ship

\* The places (index, key) at which register r holds the affector.
PlacesOf(r, a) ==
    UNION {{<<name, p[1]>> : p \in {q \in r[name] : q[2] = a}} :
             name \in AffectorMaps}

\* C21: register_affector adds a direct affector (filter item, domain self,
\* character or ship) at one place and changes nothing else: in
\* affector_item_active under its target (the carrier, the current
\* character or the current ship) when the target exists and is a
\* registered affectee, otherwise in affector_item_awaitable under its
\* carrier; an affector the register did not hold is then at exactly one
\* place.
C21_DirectAffectorGoesToOneIndex ==
    \A a \in DirectAffector :
      IsDirect(a) =>
        LET after == register_affector(reg, calc_svc, a).reg
            target == ResolvedTarget(calc_svc, a)
        IN  /\ IF target # NoItem /\ target \in reg.affectee
               THEN after =
                      [reg EXCEPT !.affector_item_active =
                                     @ \cup {<<target, a>>}]
               ELSE after =
                      [reg EXCEPT !.affector_item_awaitable =
                                     @ \cup {<<carrier_item(a), a>>}]
            /\ a \notin held_affectors(reg) =>
                 Cardinality(PlacesOf(after, a)) = 1

\* Three affectors have been registered: the one aimed at the ship is
\* active under the ship, the one aimed at the carrier is active under the
\* carrier, and the one aimed at the character, there being none, awaits
\* under its carrier.
C21_Witness ==
    /\ registered = {<<"mod", 3>>, <<"mod", 1>>, <<"skill", 3>>}
    /\ calc_svc = [current_ship |-> "ship1", current_char |-> NoItem]
    /\ PlacesOf(reg, <<"mod", 3>>) = {<<"affector_item_active", "ship1">>}
    /\ PlacesOf(reg, <<"mod", 1>>) = {<<"affector_item_active", "mod">>}
    /\ PlacesOf(reg, <<"skill", 3>>) = {<<"affector_item_awaitable", "skill">>}

\* C22: while an affector aimed at the other item is registered, it is in
\* affector_item_other under its carrier, whatever affectees were
\* registered or unregistered since, and it is in affector_item_active
\* under every registered item among the carrier's others.
C22_OtherIsKeptAndActive ==
    \A a \in registered :
      IsOther(a) =>
        /\ <<carrier_item(a), a>> \in reg.affector_item_other
        /\ \A X \in others(carrier_item(a)) \cap reg.affectee :
             <<X, a>> \in reg.affector_item_active

\* The affector aimed at the module's charge is registered and active under
\* the charge, the module itself not being an affectee.
C22_Witness ==
    /\ <<"mod", 4>> \in registered
    /\ reg.affectee = {"charge"}
    /\ PlacesOf(reg, <<"mod", 4>>) =
         {<<"affector_item_other", "mod">>, <<"affector_item_active", "charge">>}

\* C23: register_affectee(X) moves every awaitable affector aimed at X (at
\* the ship when X is the current ship, at the character when X is the
\* current character, at its carrier when X is its carrier), of every
\* carrier, from affector_item_awaitable to affector_item_active under X,
\* and copies to affector_item_active under X every affector of
\* affector_item_other whose carrier has X among its others; the other
\* awaitable affectors stay where they are and affector_item_other is left
\* as it was.
C23_RegisteringPromotesTheAwaiting ==
    \A X \in DirectItem :
      LET after == register_affectee(reg, calc_svc, X)
          due == {p \in reg.affector_item_awaitable :
                    ResolvedTarget(calc_svc, p[2]) = X}
          copied == {p \in reg.affector_item_other : X \in others(p[1])}
      IN  /\ after.affector_item_awaitable = reg.affector_item_awaitable \ due
          /\ after.affector_item_active =
               reg.affector_item_active
               \cup {<<X, p[2]>> : p \in due}
               \cup {<<X, p[2]>> : p \in copied}
          /\ after.affector_item_other = reg.affector_item_other

\* Affectors of two carriers await the ship and a third awaits the
\* character; the current ship is not registered yet, and registering it
\* makes the two active under it and leaves the third awaiting.
C23_Witness ==
    /\ reg.affector_item_awaitable =
         {<<"mod", <<"mod", 3>>>>, <<"rah", <<"rah", 2>>>>,
          <<"skill", <<"skill", 3>>>>}
    /\ calc_svc.current_ship = "ship1"
    /\ "ship1" \notin reg.affectee
    /\ LET after == register_affectee(reg, calc_svc, "ship1")
       IN  /\ after.affector_item_active =
                {<<"ship1", <<"mod", 3>>>>, <<"ship1", <<"rah", 2>>>>}
           /\ after.affector_item_awaitable = {<<"skill", <<"skill", 3>>>>}

\* C24: unregister_affectee(X) removes the whole entry of X from
\* affector_item_active; each affector removed that is aimed at its carrier,
\* the character or the ship is added to affector_item_awaitable under its
\* carrier, each one aimed at the other item is added to no index, and
\* affector_item_other is left as it was.
C24_UnregisteringDemotesTheDirect ==
    \A X \in DirectItem :
      LET after == unregister_affectee(reg, calc_svc, X)
          removed == {p[2] : p \in {q \in reg.affector_item_active : q[1] = X}}
      IN  /\ after.affector_item_active =
               {p \in reg.affector_item_active : p[1] # X}
          /\ after.affector_item_awaitable =
               reg.affector_item_awaitable
               \cup {<<carrier_item(a), a>> : a \in {b \in removed : IsDirect(b)}}
          /\ after.affector_item_other = reg.affector_item_other
          /\ \A a \in removed :
               IsOther(a) =>
                 PlacesOf(after, a) =
                   PlacesOf(reg, a) \ {<<"affector_item_active", X>>}

\* An affector is active under the ship and another, aimed at the other
\* item, under the charge: unregistering the ship makes the first await
\* under its carrier, unregistering the charge leaves the second in
\* affector_item_other only.
C24_Witness ==
    /\ <<"ship1", <<"mod", 3>>>> \in reg.affector_item_active
    /\ <<"charge", <<"mod", 4>>>> \in reg.affector_item_active
    /\ PlacesOf(unregister_affectee(reg, calc_svc, "ship1"), <<"mod", 3>>) =
         {<<"affector_item_awaitable", "mod">>}
    /\ PlacesOf(unregister_affectee(reg, calc_svc, "charge"), <<"mod", 4>>) =
         {<<"affector_item_other", "mod">>}

DomainFilter == {"domain", "domain_group", "domain_skillrq"}

\* The domain a broadcast affector is aimed at in the present state of the
\* fit, "error" when there is none.
BroadcastDomain(svc, a) ==
    LET domain == modifier(a).tgt_domain
    IN  CASE domain = "self" /\ carrier_item(a) = svc.current_ship -> "ship"
          [] domain = "self" /\ carrier_item(a) # svc.current_ship
                             /\ carrier_item(a) = svc.current_char -> "character"
          [] domain \in {"character", "ship"} -> domain
          [] OTHER -> "error"

\* The key a broadcast affector is stored under, given its domain and its
\* skill type id.
BroadcastKey(a, domain, skill) ==
    CASE modifier(a).tgt_filter = "domain" -> domain
      [] modifier(a).tgt_filter = "domain_group" ->
           <<domain, modifier(a).tgt_filter_extra_arg>>
      [] modifier(a).tgt_filter = "domain_skillrq" -> <<domain, skill>>
      [] modifier(a).tgt_filter = "owner_skillrq" -> skill

\* The index of a broadcast filter.
BroadcastIndex(a) ==
    CASE modifier(a).tgt_filter = "domain" -> "affector_domain"
      [] modifier(a).tgt_filter = "domain_group" -> "affector_domain_group"
      [] modifier(a).tgt_filter = "domain_skillrq" -> "affector_domain_skillrq"
      [] modifier(a).tgt_filter = "owner_skillrq" -> "affector_owner_skillrq"

\* The skill type id of the affector: the type id of its carrier when the
\* extra argument is current_self.
SkillOf(a) ==
    IF modifier(a).tgt_filter_extra_arg = current_self
    THEN type_id(carrier_item(a))
    ELSE modifier(a).tgt_filter_extra_arg

\* C25: for the filters domain, domain_group and domain_skillrq, the domain
\* self becomes ship on the current ship and character on the current
\* character, character and ship stay as they are, and self on another
\* carrier, other and an unknown domain raise the unexpected-domain error:
\* register_affector then logs the warning, does not raise and stores the
\* affector in no index; otherwise it stores the affector in the index of
\* the filter under the resolved domain, and nowhere else.
C25_BroadcastDomainIsResolved ==
    \A a \in BroadcastAffector :
      modifier(a).tgt_filter \in DomainFilter =>
        LET domain == BroadcastDomain(calc_svc, a)
            resolved == contextize_tgt_filter_domain(calc_svc, a)
            done == register_affector(reg, calc_svc, a)
        IN  IF domain = "error"
            THEN /\ resolved.error = "UnexpectedDomainError"
                 /\ resolved.arg = modifier(a).tgt_domain
                 /\ done.reg = reg
                 /\ ~done.raised
                 /\ Len(done.log) = 1
                 /\ done.log[1].arg = modifier(a).tgt_domain
                 /\ done.log[1].type_id = type_id(carrier_item(a))
            ELSE /\ resolved.error = "none"
                 /\ resolved.value = domain
                 /\ done.log = <<>>
                 /\ done.reg =
                      [reg EXCEPT ![BroadcastIndex(a)] =
                         @ \cup {<<BroadcastKey(a, domain, SkillOf(a)), a>>}]

\* The ship's affector aimed at its own domain is stored under ship; the
\* implant's affector of the same filter aimed at its own domain has just
\* been handed to register_affector and is in no index, its warning logged.
C25_Witness ==
    /\ registered = {<<"ship1", 1>>, <<"implant", 4>>}
    /\ PlacesOf(reg, <<"ship1", 1>>) = {<<"affector_domain", "ship">>}
    /\ PlacesOf(reg, <<"implant", 4>>) = {}
    /\ Len(log) = 1
    /\ log[1].arg = "self"
    /\ log[1].type_id = type_id("implant")
    /\ ~raised

\* The affectors register r holds in index `name` under `key`.
HeldUnder(r, name, key) == {p[2] : p \in {q \in r[name] : q[1] = key}}

\* C26: for a registered item X, get_affectors(X) is made of the affectors
\* of affector_item_active under X, of those of the broadcast indices under
\* X's domain, under (domain, X's group id) and under (domain, s) for every
\* skill s X requires when X has a domain, and of those of
\* affector_owner_skillrq under every skill X requires when X is
\* owner-modifiable; an item without a domain gets no affector of a filter
\* that aims at a domain.
C26_AffectorsAreTheUnionOfTheIndices ==
    \A X \in BroadcastItem \cap reg.affectee :
      LET domain == modifier_domain(X)
          direct == HeldUnder(reg, "affector_item_active", X)
          broadcast ==
              HeldUnder(reg, "affector_domain", domain)
              \cup HeldUnder(reg, "affector_domain_group",
                             <<domain, group_id(X)>>)
              \cup UNION {HeldUnder(reg, "affector_domain_skillrq",
                                    <<domain, s>>) : s \in required_skills(X)}
          owner ==
              UNION {HeldUnder(reg, "affector_owner_skillrq", s) :
                       s \in required_skills(X)}
      IN  /\ get_affectors(reg, X) =
               direct
               \cup (IF domain # "None" THEN broadcast ELSE {})
               \cup (IF owner_modifiable(X) THEN owner ELSE {})
          /\ domain = "None" =>
               \A a \in get_affectors(reg, X) :
                 modifier(a).tgt_filter \notin DomainFilter

\* Two affectors of the skill are registered, one aimed at the items of the
\* ship that require the skill, one at the owner's items that require it:
\* the charge gets both, the module the first, the drone the second.
C26_Witness ==
    /\ registered = {<<"skill", 1>>, <<"skill", 2>>}
    /\ {"mod", "charge", "drone"} \subseteq reg.affectee
    /\ get_affectors(reg, "charge") = {<<"skill", 1>>, <<"skill", 2>>}
    /\ get_affectors(reg, "mod") = {<<"skill", 1>>}
    /\ get_affectors(reg, "drone") = {<<"skill", 2>>}

\* The affector has a skill requirement filter whose extra argument is
\* current_self.
AimsAtOwnType(a) ==
    /\ modifier(a).tgt_filter \in {"domain_skillrq", "owner_skillrq"}
    /\ modifier(a).tgt_filter_extra_arg = current_self

\* C27: for an affector of filter domain_skillrq or owner_skillrq whose
\* extra argument is current_self, the skill is the type of the carrier:
\* register_affector stores it under that type id, get_affectees returns
\* the registered items that require that type (of the resolved domain for
\* domain_skillrq, owner-modifiable for owner_skillrq), and
\* unregister_affector takes it away from where register_affector put it.
C27_CurrentSelfIsTheCarriersType ==
    \A a \in BroadcastAffector :
      AimsAtOwnType(a) =>
        LET type == type_id(carrier_item(a))
            domain == IF modifier(a).tgt_filter = "owner_skillrq"
                      THEN "any" ELSE BroadcastDomain(calc_svc, a)
            added == register_affector(reg, calc_svc, a).reg
        IN  domain # "error" =>
              /\ PlacesOf(added, a) \ PlacesOf(reg, a) \subseteq
                   {<<BroadcastIndex(a), BroadcastKey(a, domain, type)>>}
              /\ <<BroadcastIndex(a), BroadcastKey(a, domain, type)>>
                   \in PlacesOf(added, a)
              /\ get_affectees(added, calc_svc, a).value =
                   {X \in reg.affectee :
                      /\ type \in required_skills(X)
                      /\ IF modifier(a).tgt_filter = "owner_skillrq"
                         THEN owner_modifiable(X)
                         ELSE modifier_domain(X) = domain}
              /\ a \notin held_affectors(reg) =>
                   unregister_affector(added, calc_svc, a).reg = reg

\* The skill's affector aimed at the items of the ship that require the
\* skill's type and the implant's aimed at the owner's items that require
\* the implant's type are registered under these type ids: the first
\* affects the module and the charge, the second the drone.
C27_Witness ==
    /\ registered = {<<"skill", 1>>, <<"implant", 5>>}
    /\ PlacesOf(reg, <<"skill", 1>>) =
         {<<"affector_domain_skillrq", <<"ship", type_id("skill")>>>>}
    /\ PlacesOf(reg, <<"implant", 5>>) =
         {<<"affector_owner_skillrq", type_id("implant")>>}
    /\ get_affectees(reg, calc_svc, <<"skill", 1>>).value = {"mod", "charge"}
    /\ get_affectees(reg, calc_svc, <<"implant", 5>>).value = {"drone"}

ActiveShipAffectors(S) ==
    {a \in registered :
       /\ IsDirect(a)
       /\ modifier(a).tgt_domain = "ship"
       /\ <<S, a>> \in reg.affector_item_active}

\* The register after the swap of ship S1 for S2: S1 is unregistered
\* (between), S2 becomes the current ship and is registered (after).
ShipSwap(S1, S2) ==
    LET between == unregister_affectee(reg, calc_svc, S1)
        swapped == [calc_svc EXCEPT !.current_ship = S2]
    IN  [between |-> between,
         after |-> register_affectee(between, swapped, S2)]

\* C31: when a registered ship S1 is unregistered, another ship S2 becomes
\* the current ship and S2 is registered, every registered affector aimed
\* at the ship that was active under S1 is, between the two steps, in
\* affector_item_awaitable under its carrier and nowhere else, and
\* afterwards in affector_item_active under S2 and nowhere else.
C31_ShipSwapMovesTheAffectors ==
    \A S1 \in {S \in reg.affectee : IsShip(S)} :
      \A S2 \in {S \in Item : IsShip(S)} \ {S1} :
        LET swap == ShipSwap(S1, S2)
        IN  \A a \in ActiveShipAffectors(S1) :
              /\ PlacesOf(swap.between, a) =
                   {<<"affector_item_awaitable", carrier_item(a)>>}
              /\ PlacesOf(swap.after, a) = {<<"affector_item_active", S2>>}

\* Affectors of two carriers are active under the first ship and a third
\* affector, aimed at the character, awaits: swapping the first ship for
\* the second makes the two await under their carriers and then makes
\* them active under the second ship, and leaves the third awaiting.
C31_Witness ==
    /\ ActiveShipAffectors("ship1") = {<<"mod", 3>>, <<"rah", 2>>}
    /\ <<"skill", <<"skill", 3>>>> \in reg.affector_item_awaitable
    /\ LET swap == ShipSwap("ship1", "ship2")
       IN  /\ swap.between.affector_item_awaitable =
                {<<"mod", <<"mod", 3>>>>, <<"rah", <<"rah", 2>>>>,
                 <<"skill", <<"skill", 3>>>>}
           /\ swap.between.affector_item_active = {}
           /\ swap.after.affector_item_active =
                {<<"ship2", <<"mod", 3>>>>, <<"ship2", <<"rah", 2>>>>}
           /\ swap.after.affector_item_awaitable =
                {<<"skill", <<"skill", 3>>>>}

InNoIndex(r, X) ==
    /\ X \notin r.affectee
    /\ \A name \in AffecteeMaps : \A p \in r[name] : p[2] # X
    /\ ~storage_contains(r.affector_item_active, X)

\* C33: registration has set semantics, without a count of references.
\* register_affectee called twice in a row with the same item gives the
\* register that one call gives, and one unregister_affectee then leaves
\* the item in no index; register_affector called twice in a row with an
\* affector the register did not hold gives the register that one call
\* gives, and one unregister_affector then leaves the affector in no
\* index.
C33_RegistrationHasSetSemantics ==
    /\ \A X \in DirectItem :
         LET once == register_affectee(reg, calc_svc, X)
             twice == register_affectee(once, calc_svc, X)
         IN  /\ twice = once
             /\ InNoIndex(unregister_affectee(twice, calc_svc, X), X)
    /\ \A a \in (CallAffector \cup DirectAffector) \ held_affectors(reg) :
         LET once == register_affector(reg, calc_svc, a).reg
             twice == register_affector(once, calc_svc, a).reg
         IN  /\ twice = once
             /\ PlacesOf(unregister_affector(twice, calc_svc, a).reg, a) = {}

\* The current ship is not registered and an affector awaits it, and the
\* charge is registered while the module's affector aimed at it is not:
\* registering the ship promotes the affector, registering the module's
\* affector puts it at two places, a second call changes nothing more and
\* one unregistration removes the ship or the affector.
C33_Witness ==
    /\ calc_svc.current_ship = "ship1"
    /\ "ship1" \notin reg.affectee
    /\ <<"rah", <<"rah", 2>>>> \in reg.affector_item_awaitable
    /\ "charge" \in reg.affectee
    /\ <<"mod", 4>> \notin held_affectors(reg)
    /\ LET once == register_affectee(reg, calc_svc, "ship1")
       IN  /\ <<"ship1", <<"rah", 2>>>> \in once.affector_item_active
           /\ register_affectee(once, calc_svc, "ship1") = once
           /\ InNoIndex(unregister_affectee(once, calc_svc, "ship1"), "ship1")
    /\ LET once == register_affector(reg, calc_svc, <<"mod", 4>>).reg
       IN  /\ PlacesOf(once, <<"mod", 4>>) =
                {<<"affector_item_other", "mod">>,
                 <<"affector_item_active", "charge">>}
           /\ register_affector(once, calc_svc, <<"mod", 4>>).reg = once
           /\ PlacesOf(unregister_affector(once, calc_svc, <<"mod", 4>>).reg,
                       <<"mod", 4>>) = {}

\* The affectors the broadcast indices of register r hold under the
\* domain, the group and the skills of the item.
BroadcastMatches(r, X) ==
    LET domain == modifier_domain(X)
    IN  HeldUnder(r, "affector_domain", domain)
        \cup HeldUnder(r, "affector_domain_group", <<domain, group_id(X)>>)
        \cup UNION {HeldUnder(r, "affector_domain_skillrq", <<domain, s>>)
                    \cup HeldUnder(r, "affector_owner_skillrq", s) :
                      s \in required_skills(X)}

\* C34: get_affectors returns the empty set for every item that is not a
\* registered affectee, whatever the broadcast indices hold under the
\* item's domain, group or skills, and it returns the empty set for an
\* item once unregister_affectee has been called with it.
C34_NoAffectorsOfTheUnregistered ==
    /\ \A X \in Item \ reg.affectee : get_affectors(reg, X) = {}
    /\ \A X \in BroadcastItem :
         get_affectors(unregister_affectee(reg, calc_svc, X), X) = {}

\* The ship's affector aimed at its domain and the skill's affector aimed
\* at the items of the ship that require the skill are registered.  The
\* module, which is of that domain and requires the skill, is not
\* registered and gets no affector; the charge, which is registered, gets
\* both, and none once it is unregistered.
C34_Witness ==
    /\ registered = {<<"ship1", 1>>, <<"skill", 1>>}
    /\ "mod" \notin reg.affectee
    /\ BroadcastMatches(reg, "mod") = {<<"ship1", 1>>, <<"skill", 1>>}
    /\ get_affectors(reg, "mod") = {}
    /\ "charge" \in reg.affectee
    /\ get_affectors(reg, "charge") = {<<"ship1", 1>>, <<"skill", 1>>}
    /\ LET after == unregister_affectee(reg, calc_svc, "charge")
       IN  /\ BroadcastMatches(after, "charge") =
                {<<"ship1", 1>>, <<"skill", 1>>}
           /\ get_affectors(after, "charge") = {}

(***************************************************************************)
(* Invariants of the indices of the affectors aimed at single items.       *)
(***************************************************************************)
\* C35: every key of affector_item_active is a registered affectee: the
\* register holds no affector as active under an item that is not in the
\* affectee set.
C35_ActiveKeysAreRegistered ==
    \A p \in reg.affector_item_active : p[1] \in reg.affectee

\* Affectors are active under the module and under the charge, which are
\* registered, and the affector aimed at the ship awaits under the module,
\* the current ship not being registered.
C35_Witness ==
    /\ registered = {<<"mod", 1>>, <<"mod", 3>>, <<"mod", 4>>}
    /\ calc_svc.current_ship = "ship1"
    /\ reg.affectee = {"mod", "charge"}
    /\ reg.affector_item_active =
         {<<"mod", <<"mod", 1>>>>, <<"charge", <<"mod", 4>>>>}
    /\ reg.affector_item_awaitable = {<<"mod", <<"mod", 3>>>>}

\* C36: every affector stored in affector_item_awaitable has the filter
\* item and the domain self, character or ship and is stored under its own
\* carrier; every affector stored in affector_item_other has the filter
\* item and the domain other and is stored under its own carrier.
C36_AwaitableAndOtherAreUnderTheCarrier ==
    /\ \A p \in reg.affector_item_awaitable :
         IsDirect(p[2]) /\ p[1] = carrier_item(p[2])
    /\ \A p \in reg.affector_item_other :
         IsOther(p[2]) /\ p[1] = carrier_item(p[2])

\* The hardener's affector aimed at the ship and the skill's aimed at the
\* character await under the hardener and the skill, neither the ship nor
\* the character being registered; the module's affector aimed at the
\* other item is under the module and active under the charge.
C36_Witness ==
    /\ registered = {<<"rah", 2>>, <<"skill", 3>>, <<"mod", 4>>}
    /\ calc_svc = [current_ship |-> "ship1", current_char |-> "char"]
    /\ reg.affectee = {"charge"}
    /\ reg.affector_item_awaitable =
         {<<"rah", <<"rah", 2>>>>, <<"skill", <<"skill", 3>>>>}
    /\ reg.affector_item_other = {<<"mod", <<"mod", 4>>>>}
    /\ reg.affector_item_active = {<<"charge", <<"mod", 4>>>>}

(***************************************************************************)
(* What the calls of the register leave alone.                             *)
(***************************************************************************)
\* C37: register_affectee and unregister_affectee leave affector_domain,
\* affector_domain_group, affector_domain_skillrq, affector_owner_skillrq
\* and affector_item_other as they were: of the affector indices they
\* change affector_item_active and affector_item_awaitable only; and
\* unregister_affectee of an item that has no entry in
\* affector_item_active changes no affector index.
C37_AffecteeCallsKeepTheOtherIndices ==
    \A X \in Item :
      LET added == register_affectee(reg, calc_svc, X)
          removed == unregister_affectee(reg, calc_svc, X)
      IN  /\ \A name \in AffectorMaps \ {"affector_item_active",
                                          "affector_item_awaitable"} :
               added[name] = reg[name] /\ removed[name] = reg[name]
          /\ storage_get(reg.affector_item_active, X) = {} =>
               \A name \in AffectorMaps : removed[name] = reg[name]

\* The module is registered and its affector aimed at the other item is
\* in affector_item_other only: registering the charge makes the affector
\* active under the charge and leaves affector_item_other as it is, and
\* unregistering the module, which has no active affector, changes the
\* affectee set and no affector index.
C37_Witness ==
    /\ registered = {<<"mod", 4>>}
    /\ reg.affectee = {"mod"}
    /\ PlacesOf(reg, <<"mod", 4>>) = {<<"affector_item_other", "mod">>}
    /\ LET added == register_affectee(reg, calc_svc, "charge")
       IN  /\ added.affector_item_active = {<<"charge", <<"mod", 4>>>>}
           /\ added.affector_item_other = reg.affector_item_other
    /\ LET removed == unregister_affectee(reg, calc_svc, "mod")
       IN  /\ removed.affectee = {}
           /\ \A name \in AffectorMaps : removed[name] = reg[name]

\* Registers r and s have the same affectee set and affectee indices.
SameAffectees(r, s) ==
    /\ r.affectee = s.affectee
    /\ \A name \in AffecteeMaps : r[name] = s[name]

\* A step of the register driven call by call is a call of get_affectees
\* or of get_affectors.
QueryStep ==
    \/ \E affector \in CallAffector : GetAffectees(affector)
    \/ \E item \in CallItem : GetAffectors(item)

\* C38: register_affector and unregister_affector leave the affectee set
\* and affectee_domain, affectee_domain_group, affectee_domain_skillrq and
\* affectee_owner_skillrq as they were, whatever the affector; and a call
\* of get_affectees or get_affectors leaves the affectee set and every
\* index as they were.
C38_AffectorCallsKeepTheAffectees ==
    [][/\ \A a \in CallAffector :
            /\ SameAffectees(register_affector(reg, calc_svc, a).reg, reg)
            /\ SameAffectees(unregister_affector(reg, calc_svc, a).reg, reg)
       /\ QueryStep => reg' = reg]_vars

\* The module and the charge are registered affectees and the ship's
\* affector aimed at its domain is registered; there is no current ship
\* any more, and the latest call, made with the affector, has logged that
\* the domain cannot be resolved: the affectee indices hold the module and
\* the charge, and the affector is where it was.
C38_Witness ==
    /\ registered = {<<"ship1", 1>>}
    /\ calc_svc.current_ship = NoItem
    /\ Len(log) = 1
    /\ log[1].type_id = type_id("ship1")
    /\ reg.affectee = {"mod", "charge"}
    /\ reg.affectee_domain = {<<"ship", "mod">>, <<"ship", "charge">>}
    /\ get_affectees(reg, calc_svc, <<"ship1", 1>>).log = log
    /\ PlacesOf(reg, <<"ship1", 1>>) = {<<"affector_domain", "ship">>}
====
